---- MODULE Spec2Model ----
(***************************************************************************)
(* Model of the uniseg segmentation library: the Run cursor of             *)
(* uniseg/breaking.py, the grapheme-cluster, word, sentence and line-break *)
(* engines and the breakables / boundaries / units facade.                 *)
(*                                                                         *)
(* Conventions.                                                            *)
(*  - A text is a sequence of code points; a code point is the name of a   *)
(*    representative character ("a", "CR", "U+0308", ...).  Python         *)
(*    indices are 0-based: position p of a text is element p+1 of the      *)
(*    sequence.                                                            *)
(*  - Python's None is the string "None"; Breakable.Break and              *)
(*    Breakable.DoNotBreak are "Break" and "DoNotBreak".                   *)
(*  - The engines call Run with the keyword greedy= and with the methods   *)
(*    set_skip_table, attributes, attr, char, pc, cc, nc, is_sot, is_eot,  *)
(*    set_char, set_attr and breakables(); breaking.py names the keyword   *)
(*    variable= and has none of these methods.  greedy is read as          *)
(*    variable, and the absent methods are modelled from their use.        *)
(***************************************************************************)
EXTENDS Integers, Sequences, FiniteSets, TLC

None == "None"
Break == "Break"
DoNotBreak == "DoNotBreak"

(***************************************************************************)
(* Bounds of the model.                                                    *)
(***************************************************************************)
MaxLen == 3
MaxRILen == 4
MaxGBLen == 4
MaxSBLen == 4
MaxWBLen == 5
MaxLBLen == 4

(***************************************************************************)
(* The property database (uniseg/db.py over uniseg/db_lookups.py, which is *)
(* generated from the UCD) and the unicodedata oracle.  The code points of *)
(* the model are representatives of the property classes, named by a       *)
(* character ("a", "SP") or by a scalar value ("U+0308"); every accessor   *)
(* gives the value the Unicode data files give for that code point.        *)
(***************************************************************************)
CodePoints ==
    {"a", "A", "1", "SP", ".", "!", ",", ":", "'", "DQ", "(", ")", "-",
     "/", "%", "$", "_", "CR", "LF", "U+0001", "U+0085", "U+2028",
     "U+00A0", "U+00A7", "U+00AD", "U+00B4", "U+0308", "U+0600", "U+05D0",
     "U+0903", "U+0915", "U+094D", "U+0E01", "U+0E31", "U+1100", "U+1161",
     "U+11A8", "U+AC00", "U+AC01", "U+1B05", "U+1B44", "U+1BF2", "U+11003",
     "U+1BC0", "U+200B", "U+200D", "U+2010", "U+2014", "U+201C", "U+201D",
     "U+2026", "U+2060", "U+25CC", "U+261D", "U+3001", "U+3041", "U+30A2",
     "U+FFFC", "U+1F02C", "U+1F1E6", "U+1F3FB", "U+1F600"}

grapheme_cluster_break(ch) ==
    IF ch = "CR" THEN "CR"
    ELSE IF ch = "LF" THEN "LF"
    ELSE IF ch \in {"U+0001", "U+0085", "U+2028", "U+00AD", "U+200B",
                    "U+2060"}
    THEN "Control"
    ELSE IF ch \in {"U+0308", "U+094D", "U+0E31", "U+1F3FB"}
    THEN "Extend"
    ELSE IF ch = "U+0600" THEN "Prepend"
    ELSE IF ch \in {"U+0903", "U+1B44", "U+1BF2"}
    THEN "SpacingMark"
    ELSE IF ch = "U+1100" THEN "L"
    ELSE IF ch = "U+1161" THEN "V"
    ELSE IF ch = "U+11A8" THEN "T"
    ELSE IF ch = "U+AC00" THEN "LV"
    ELSE IF ch = "U+AC01" THEN "LVT"
    ELSE IF ch = "U+200D" THEN "ZWJ"
    ELSE IF ch = "U+1F1E6" THEN "Regional_Indicator"
    ELSE "Other"

word_break(ch) ==
    IF ch \in {"a", "A", "U+0915", "U+1100", "U+1161", "U+11A8", "U+AC00",
               "U+AC01", "U+1B05", "U+11003", "U+1BC0"}
    THEN "ALetter"
    ELSE IF ch \in {"1", "U+0600"}
    THEN "Numeric"
    ELSE IF ch = "SP" THEN "WSegSpace"
    ELSE IF ch = "." THEN "MidNumLet"
    ELSE IF ch = "," THEN "MidNum"
    ELSE IF ch = ":" THEN "MidLetter"
    ELSE IF ch = "'" THEN "Single_Quote"
    ELSE IF ch = "DQ" THEN "Double_Quote"
    ELSE IF ch = "_" THEN "ExtendNumLet"
    ELSE IF ch = "CR" THEN "CR"
    ELSE IF ch = "LF" THEN "LF"
    ELSE IF ch \in {"U+0085", "U+2028"}
    THEN "Newline"
    ELSE IF ch \in {"U+00AD", "U+2060"}
    THEN "Format"
    ELSE IF ch \in {"U+0308", "U+0903", "U+094D", "U+0E31", "U+1B44",
                    "U+1BF2", "U+1F3FB"}
    THEN "Extend"
    ELSE IF ch = "U+05D0" THEN "Hebrew_Letter"
    ELSE IF ch = "U+200D" THEN "ZWJ"
    ELSE IF ch = "U+30A2" THEN "Katakana"
    ELSE IF ch = "U+1F1E6" THEN "Regional_Indicator"
    ELSE "Other"

sentence_break(ch) ==
    IF ch = "a" THEN "Lower"
    ELSE IF ch = "A" THEN "Upper"
    ELSE IF ch \in {"1", "U+0600"}
    THEN "Numeric"
    ELSE IF ch \in {"SP", "U+00A0"}
    THEN "Sp"
    ELSE IF ch = "." THEN "ATerm"
    ELSE IF ch = "!" THEN "STerm"
    ELSE IF ch \in {",", ":", "-", "U+2014", "U+3001"}
    THEN "SContinue"
    ELSE IF ch \in {"'", "DQ", "(", ")", "U+201C", "U+201D"}
    THEN "Close"
    ELSE IF ch = "CR" THEN "CR"
    ELSE IF ch = "LF" THEN "LF"
    ELSE IF ch \in {"U+0085", "U+2028"}
    THEN "Sep"
    ELSE IF ch \in {"U+00AD", "U+200B", "U+2060"}
    THEN "Format"
    ELSE IF ch \in {"U+0308", "U+0903", "U+094D", "U+0E31", "U+1B44",
                    "U+1BF2", "U+200D", "U+1F3FB"}
    THEN "Extend"
    ELSE IF ch \in {"U+05D0", "U+0915", "U+0E01", "U+1100", "U+1161",
                    "U+11A8", "U+AC00", "U+AC01", "U+1B05", "U+11003",
                    "U+1BC0", "U+3041", "U+30A2"}
    THEN "OLetter"
    ELSE "Other"

line_break(ch) ==
    IF ch \in {"a", "A", "_", "U+0915", "U+25CC"}
    THEN "AL"
    ELSE IF ch \in {"1", "U+0600"}
    THEN "NU"
    ELSE IF ch = "SP" THEN "SP"
    ELSE IF ch \in {".", ",", ":"}
    THEN "IS"
    ELSE IF ch = "!" THEN "EX"
    ELSE IF ch \in {"'", "DQ", "U+201C", "U+201D"}
    THEN "QU"
    ELSE IF ch = "(" THEN "OP"
    ELSE IF ch = ")" THEN "CP"
    ELSE IF ch = "-" THEN "HY"
    ELSE IF ch = "/" THEN "SY"
    ELSE IF ch = "%" THEN "PO"
    ELSE IF ch = "$" THEN "PR"
    ELSE IF ch = "CR" THEN "CR"
    ELSE IF ch = "LF" THEN "LF"
    ELSE IF ch \in {"U+0001", "U+0308", "U+0903", "U+094D"}
    THEN "CM"
    ELSE IF ch = "U+0085" THEN "NL"
    ELSE IF ch = "U+2028" THEN "BK"
    ELSE IF ch = "U+00A0" THEN "GL"
    ELSE IF ch = "U+00A7" THEN "AI"
    ELSE IF ch \in {"U+00AD", "U+2010"}
    THEN "BA"
    ELSE IF ch = "U+00B4" THEN "BB"
    ELSE IF ch = "U+05D0" THEN "HL"
    ELSE IF ch \in {"U+0E01", "U+0E31"}
    THEN "SA"
    ELSE IF ch = "U+1100" THEN "JL"
    ELSE IF ch = "U+1161" THEN "JV"
    ELSE IF ch = "U+11A8" THEN "JT"
    ELSE IF ch = "U+AC00" THEN "H2"
    ELSE IF ch = "U+AC01" THEN "H3"
    ELSE IF ch = "U+1B05" THEN "AK"
    ELSE IF ch = "U+1B44" THEN "VI"
    ELSE IF ch = "U+1BF2" THEN "VF"
    ELSE IF ch = "U+11003" THEN "AP"
    ELSE IF ch = "U+1BC0" THEN "AS"
    ELSE IF ch = "U+200B" THEN "ZW"
    ELSE IF ch = "U+200D" THEN "ZWJ"
    ELSE IF ch = "U+2014" THEN "B2"
    ELSE IF ch = "U+2026" THEN "IN"
    ELSE IF ch = "U+2060" THEN "WJ"
    ELSE IF ch = "U+261D" THEN "EB"
    ELSE IF ch = "U+3001" THEN "CL"
    ELSE IF ch = "U+3041" THEN "CJ"
    ELSE IF ch \in {"U+30A2", "U+1F02C", "U+1F600"}
    THEN "ID"
    ELSE IF ch = "U+FFFC" THEN "CB"
    ELSE IF ch = "U+1F1E6" THEN "RI"
    ELSE IF ch = "U+1F3FB" THEN "EM"
    ELSE "XX"

extended_pictographic(ch) ==
    ch \in {"U+261D", "U+1F02C", "U+1F600"}

\* bool(...) of the InCB column: Python's True / False, never a class name
indic_conjunct_break(ch) ==
    IF ch \in {"U+0308", "U+0915", "U+094D", "U+200D"}
    THEN "True" ELSE "False"

\* unicodedata.category
category(ch) ==
    IF ch = "a" THEN "Ll"
    ELSE IF ch = "A" THEN "Lu"
    ELSE IF ch = "1" THEN "Nd"
    ELSE IF ch \in {"SP", "U+00A0"}
    THEN "Zs"
    ELSE IF ch \in {".", "!", ",", ":", "'", "DQ", "/", "%", "U+00A7",
                    "U+2026", "U+3001"}
    THEN "Po"
    ELSE IF ch = "(" THEN "Ps"
    ELSE IF ch = ")" THEN "Pe"
    ELSE IF ch \in {"-", "U+2010", "U+2014"}
    THEN "Pd"
    ELSE IF ch = "$" THEN "Sc"
    ELSE IF ch = "_" THEN "Pc"
    ELSE IF ch \in {"CR", "LF", "U+0001", "U+0085"}
    THEN "Cc"
    ELSE IF ch = "U+2028" THEN "Zl"
    ELSE IF ch \in {"U+00AD", "U+0600", "U+200B", "U+200D", "U+2060"}
    THEN "Cf"
    ELSE IF ch \in {"U+00B4", "U+1F3FB"}
    THEN "Sk"
    ELSE IF ch \in {"U+0308", "U+094D", "U+0E31"}
    THEN "Mn"
    ELSE IF ch \in {"U+05D0", "U+0915", "U+0E01", "U+1100", "U+1161",
                    "U+11A8", "U+AC00", "U+AC01", "U+1B05", "U+11003",
                    "U+1BC0", "U+3041", "U+30A2"}
    THEN "Lo"
    ELSE IF ch \in {"U+0903", "U+1B44", "U+1BF2"}
    THEN "Mc"
    ELSE IF ch = "U+201C" THEN "Pi"
    ELSE IF ch = "U+201D" THEN "Pf"
    ELSE IF ch \in {"U+25CC", "U+261D", "U+FFFC", "U+1F1E6", "U+1F600"}
    THEN "So"
    ELSE "Cn"

\* unicodedata.east_asian_width
east_asian_width(ch) ==
    IF ch \in {"a", "A", "1", "SP", ".", "!", ",", ":", "'", "DQ", "(",
               ")", "-", "/", "%", "$", "_"}
    THEN "Na"
    ELSE IF ch \in {"U+00A7", "U+00AD", "U+00B4", "U+0308", "U+2010",
                    "U+2014", "U+201C", "U+201D", "U+2026", "U+25CC",
                    "U+FFFC"}
    THEN "A"
    ELSE IF ch \in {"U+1100", "U+AC00", "U+AC01", "U+3001", "U+3041",
                    "U+30A2", "U+1F02C", "U+1F3FB", "U+1F600"}
    THEN "W"
    ELSE "N"

(***************************************************************************)
(* uniseg/breaking.py: class Run.                                          *)
(* A cursor is a record; chars is the text as seen through char()/pc/cc/nc *)
(* (set_char rewrites it), skip_table[p+1] = 0 marks position p as         *)
(* transparent for stepping.                                               *)
(***************************************************************************)
\* func is the property function, from code points to property values
Run(text, func) ==
    [text |-> text,
     chars |-> text,
     values |-> [i \in 1..Len(text) |-> func[text[i]]],
     skip |-> {},
     skip_table |-> [i \in 1..Len(text) |-> 1],
     breakables |-> [i \in 1..Len(text) |-> None],
     position |-> 0,
     condition |-> text # <<>>]

InRange(run, i) == 0 <= i /\ i < Len(run.text)

\* the skip test of _calc_position: the skip set of skip(), or the table of
\* set_skip_table()
Skipped(run, i, noskip) ==
    ~noskip /\ (run.values[i + 1] \in run.skip \/ run.skip_table[i + 1] = 0)

RECURSIVE SkipFrom(_, _, _, _)
SkipFrom(run, i, vec, noskip) ==
    IF InRange(run, i) /\ Skipped(run, i, noskip)
    THEN SkipFrom(run, i + vec, vec, noskip)
    ELSE i

RECURSIVE StepFrom(_, _, _, _, _)
StepFrom(run, i, vec, n, noskip) ==
    IF n = 0 THEN i
    ELSE StepFrom(run, SkipFrom(run, i + vec, vec, noskip), vec, n - 1, noskip)

_calc_position(run, offset, noskip) ==
    LET vec == IF offset > 0 THEN 1 ELSE IF offset < 0 THEN -1 ELSE 0
        n == IF offset < 0 THEN -offset ELSE offset
    IN StepFrom(run, run.position, vec, n, noskip)

value(run, offset, noskip) ==
    LET i == _calc_position(run, offset, noskip)
    IN IF run.condition /\ InRange(run, i) THEN run.values[i + 1] ELSE None

curr(run) == value(run, 0, FALSE)
prev(run) == value(run, -1, FALSE)
next(run) == value(run, 1, FALSE)

\* faulty variant of walk that leaves the cursor where the step ended
walk_unclamped(run, offset, noskip) ==
    IF run.condition
    THEN [run EXCEPT !.position = _calc_position(run, offset, noskip),
                     !.condition = InRange(run, _calc_position(run, offset, noskip))]
    ELSE run

\* walk returns self._condition: the result is the condition of the cursor
\* it leaves behind
walk(run, offset, noskip) ==
    IF run.condition
    THEN LET pos == _calc_position(run, offset, noskip)
         IN [run EXCEPT
               !.position = IF pos < 0 THEN 0
                            ELSE IF Len(run.text) <= pos THEN Len(run.text) - 1
                            ELSE pos,
               !.condition = InRange(run, pos)]
    ELSE run

head(run) == [run EXCEPT !.position = 0, !.condition = TRUE]

skip(run, values) == [run EXCEPT !.skip = values]

RECURSIVE WalkWhileIn(_, _, _, _)
WalkWhileIn(run, values, vec, noskip) ==
    IF value(run, vec, noskip) \in values
    THEN LET r == walk(run, vec, noskip)
         IN IF ~r.condition THEN r ELSE WalkWhileIn(r, values, vec, noskip)
    ELSE run

\* faulty variant of is_continuing whose greedy result is always valid
is_continuing_unanded(self, values, variable, backward, noskip) ==
    IF variable
    THEN [WalkWhileIn(self, values, IF backward THEN -1 ELSE 1, noskip)
             EXCEPT !.condition = TRUE]
    ELSE [walk(self, IF backward THEN -1 ELSE 1, noskip)
             EXCEPT !.condition =
                 /\ self.condition
                 /\ walk(self, IF backward THEN -1 ELSE 1, noskip).condition
                 /\ curr(walk(self, IF backward THEN -1 ELSE 1, noskip))
                        \in values]

is_continuing(self, values, variable, backward, noskip) ==
    LET vec == IF backward THEN -1 ELSE 1
    IN IF variable
       THEN LET run == WalkWhileIn(self, values, vec, noskip)
            IN [run EXCEPT !.condition = self.condition /\ TRUE]
       ELSE LET run == walk(self, vec, noskip)
                condition == run.condition /\ curr(run) \in values
            IN [run EXCEPT !.condition = self.condition /\ condition]

is_following(self, values, variable, noskip) ==
    is_continuing(self, values, variable, TRUE, noskip)

is_leading(self, values, variable, noskip) ==
    is_continuing(self, values, variable, FALSE, noskip)

\* faulty variant of break_here that writes over a decision already made
break_here_unguarded(run) ==
    IF run.text # <<>>
    THEN [run EXCEPT !.breakables[run.position + 1] = Break]
    ELSE run

break_here(run) ==
    IF run.text # <<>> /\ run.breakables[run.position + 1] = None
    THEN [run EXCEPT !.breakables[run.position + 1] = Break]
    ELSE run

\* faulty variant of do_not_break_here that writes nothing
do_not_break_here_noop(run) == run

\* faulty variant of do_not_break_here that writes over a decision already
\* made
do_not_break_here_unguarded(run) ==
    IF run.text # <<>>
    THEN [run EXCEPT !.breakables[run.position + 1] = DoNotBreak]
    ELSE run

do_not_break_here(run) ==
    IF run.text # <<>> /\ run.breakables[run.position + 1] = None
    THEN [run EXCEPT !.breakables[run.position + 1] = DoNotBreak]
    ELSE run

\* faulty variant of set_default that fills every open position with
\* DoNotBreak
set_default_clear(run, breakable) ==
    [run EXCEPT !.breakables =
        [i \in 1..Len(run.breakables) |->
            IF run.breakables[i] = None THEN DoNotBreak ELSE run.breakables[i]]]

\* faulty variant of set_default that overwrites the decided positions too
set_default_all(run, breakable) ==
    [run EXCEPT !.breakables = [i \in 1..Len(run.breakables) |-> breakable]]

set_default(run, breakable) ==
    [run EXCEPT !.breakables =
        [i \in 1..Len(run.breakables) |->
            IF run.breakables[i] = None THEN breakable ELSE run.breakables[i]]]

BreakableValue(b) == IF b = Break THEN 1 ELSE 0

\* faulty variant of literal_breakables that leaves out the last position
literal_breakables_short(run, default) ==
    [i \in 1..(Len(run.breakables) - 1) |->
        IF run.breakables[i] = None THEN BreakableValue(default)
        ELSE BreakableValue(run.breakables[i])]

literal_breakables(run, default) ==
    [i \in 1..Len(run.breakables) |->
        IF run.breakables[i] = None THEN BreakableValue(default)
        ELSE BreakableValue(run.breakables[i])]

(***************************************************************************)
(* Methods the engines call on Run that breaking.py does not define.       *)
(***************************************************************************)
\* set_skip_table(table): table[p] true (or 1) keeps position p visible
set_skip_table(run, table) ==
    [run EXCEPT !.skip_table =
        [i \in 1..Len(run.text) |-> IF i <= Len(table) THEN table[i] ELSE 1]]

attr(run, offset) == value(run, offset, FALSE)

char(run, offset) ==
    LET i == _calc_position(run, offset, FALSE)
    IN IF run.condition /\ InRange(run, i) THEN run.chars[i + 1] ELSE None

pc(run) == char(run, -1)
cc(run) == char(run, 0)
nc(run) == char(run, 1)

is_sot(run) == run.condition /\ ~InRange(run, _calc_position(run, -1, FALSE))
is_eot(run) == run.condition /\ ~InRange(run, _calc_position(run, 1, FALSE))

set_char(run, ch) ==
    IF InRange(run, run.position)
    THEN [run EXCEPT !.chars[run.position + 1] = ch] ELSE run

set_attr(run, v) ==
    IF InRange(run, run.position)
    THEN [run EXCEPT !.values[run.position + 1] = v] ELSE run

(***************************************************************************)
(* uniseg/breaking.py: boundaries and break_units.                         *)
(***************************************************************************)
RECURSIVE BoundariesFrom(_, _)
BoundariesFrom(breakables, j) ==
    IF j >= Len(breakables) THEN <<>>
    ELSE (IF breakables[j + 1] = 1 THEN <<j>> ELSE <<>>)
         \o BoundariesFrom(breakables, j + 1)

\* faulty variant of boundaries without the final `yield i+1`
boundaries_without_end(breakables) == BoundariesFrom(breakables, 0)

\* faulty variant of boundaries without the `if i is not None` guard
boundaries_unguarded(breakables) ==
    BoundariesFrom(breakables, 0) \o <<Len(breakables)>>

boundaries(breakables) ==
    BoundariesFrom(breakables, 0)
    \o (IF Len(breakables) > 0 THEN <<Len(breakables)>> ELSE <<>>)

Slice(s, i, j) == [k \in 1..(j - i) |-> s[i + k]]

\* the loop of break_units from index j on, i being the start of the open unit
RECURSIVE UnitsFrom(_, _, _, _)
UnitsFrom(s, breakables, i, j) ==
    IF j >= Len(breakables)
    THEN IF s # <<>> THEN <<Slice(s, i, Len(s))>> ELSE <<>>
    ELSE IF breakables[j + 1] = 1
         THEN (IF j # 0 THEN <<Slice(s, i, j)>> ELSE <<>>)
              \o UnitsFrom(s, breakables, j, j + 1)
         ELSE UnitsFrom(s, breakables, i, j + 1)

\* faulty variant of break_units without the final `yield s[i:]`
break_units_no_tail(s, breakables) ==
    LET u == UnitsFrom(s, breakables, 0, 0)
    IN SubSeq(u, 1, Len(u) - 1)

\* faulty variant of break_units without the `if j` guard: a break at
\* position 0 yields the empty slice s[0:0]
break_units_empty_head(s, breakables) ==
    LET u == UnitsFrom(s, breakables, 0, 0)
    IN IF breakables # <<>> /\ breakables[1] = 1 THEN <<<<>>>> \o u ELSE u

break_units(s, breakables) == UnitsFrom(s, breakables, 0, 0)

(***************************************************************************)
(* uniseg/graphemecluster.py                                               *)
(***************************************************************************)
_ep(ch) == IF ch = None THEN FALSE ELSE extended_pictographic(ch)

\* body of the first loop (GB9c shadow pass over the InCB values)
InCBRule(run) ==
    IF /\ prev(is_following(run, {"Extend", "Linker"}, TRUE, FALSE)) = "Consonant"
       /\ prev(is_following(run, {"Extend"}, TRUE, FALSE)) # "Consonant"
       /\ curr(run) = "Consonant"
    THEN do_not_break_here(run)
    ELSE run

RECURSIVE InCBPass(_)
InCBPass(run) ==
    LET r == walk(run, 1, FALSE)
    IN IF r.condition THEN InCBPass(InCBRule(r)) ELSE r

\* faulty variant of GBRule without GB9 (x (Extend | ZWJ))
GBRule_without_GB9(run, incb_breakables) ==
    LET p == prev(run)
        c == curr(run)
    IN  IF p = "CR" /\ c = "LF" THEN do_not_break_here(run)
        ELSE IF p \in {"Control", "CR", "LF"} \/ c \in {"Control", "CR", "LF"}
        THEN break_here(run)
        ELSE IF \/ (p = "L" /\ c \in {"L", "V", "LV", "LVT"})
                \/ (p \in {"LV", "V"} /\ c \in {"V", "T"})
                \/ (p \in {"LVT", "T"} /\ c = "T")
        THEN do_not_break_here(run)
        ELSE IF c = "SpacingMark" \/ p = "Prepend" THEN do_not_break_here(run)
        ELSE IF incb_breakables[run.position + 1] = DoNotBreak
        THEN do_not_break_here(run)
        ELSE IF /\ _ep(pc(is_following(is_following(run, {"ZWJ"}, FALSE, FALSE),
                                       {"Extend"}, TRUE, FALSE)))
                /\ _ep(cc(run))
        THEN do_not_break_here(run)
        ELSE run

\* faulty variant of the rule chain that tests GB9 before GB4 / GB5
GBRule_GB9_first(run, incb_breakables) ==
    LET p == prev(run)
        c == curr(run)
    IN  IF p = "CR" /\ c = "LF" THEN do_not_break_here(run)
        ELSE IF c \in {"Extend", "ZWJ"} THEN do_not_break_here(run)
        ELSE IF p \in {"Control", "CR", "LF"} \/ c \in {"Control", "CR", "LF"}
        THEN break_here(run)
        ELSE IF \/ (p = "L" /\ c \in {"L", "V", "LV", "LVT"})
                \/ (p \in {"LV", "V"} /\ c \in {"V", "T"})
                \/ (p \in {"LVT", "T"} /\ c = "T")
        THEN do_not_break_here(run)
        ELSE IF c = "SpacingMark" \/ p = "Prepend" THEN do_not_break_here(run)
        ELSE IF incb_breakables[run.position + 1] = DoNotBreak
        THEN do_not_break_here(run)
        ELSE IF /\ _ep(pc(is_following(is_following(run, {"ZWJ"}, FALSE, FALSE),
                                       {"Extend"}, TRUE, FALSE)))
                /\ _ep(cc(run))
        THEN do_not_break_here(run)
        ELSE run

\* faulty variant of the rule chain whose GB11 wants the pictograph right
\* before the ZWJ
GBRule_GB11_adjacent(run, incb_breakables) ==
    LET p == prev(run)
        c == curr(run)
    IN  IF p = "CR" /\ c = "LF" THEN do_not_break_here(run)
        ELSE IF p \in {"Control", "CR", "LF"} \/ c \in {"Control", "CR", "LF"}
        THEN break_here(run)
        ELSE IF \/ (p = "L" /\ c \in {"L", "V", "LV", "LVT"})
                \/ (p \in {"LV", "V"} /\ c \in {"V", "T"})
                \/ (p \in {"LVT", "T"} /\ c = "T")
        THEN do_not_break_here(run)
        ELSE IF c \in {"Extend", "ZWJ"} THEN do_not_break_here(run)
        ELSE IF c = "SpacingMark" \/ p = "Prepend" THEN do_not_break_here(run)
        ELSE IF incb_breakables[run.position + 1] = DoNotBreak
        THEN do_not_break_here(run)
        ELSE IF /\ _ep(pc(is_following(run, {"ZWJ"}, FALSE, FALSE)))
                /\ _ep(cc(run))
        THEN do_not_break_here(run)
        ELSE run

\* body of the second loop: GB3 .. GB11
GBRule(run, incb_breakables) ==
    LET p == prev(run)
        c == curr(run)
    IN  \* GB3
        IF p = "CR" /\ c = "LF" THEN do_not_break_here(run)
        \* GB4, GB5
        ELSE IF p \in {"Control", "CR", "LF"} \/ c \in {"Control", "CR", "LF"}
        THEN break_here(run)
        \* GB6, GB7, GB8
        ELSE IF \/ (p = "L" /\ c \in {"L", "V", "LV", "LVT"})
                \/ (p \in {"LV", "V"} /\ c \in {"V", "T"})
                \/ (p \in {"LVT", "T"} /\ c = "T")
        THEN do_not_break_here(run)
        ELSE IF c \in {"Extend", "ZWJ"} THEN do_not_break_here(run)
        \* GB9a, GB9b
        ELSE IF c = "SpacingMark" \/ p = "Prepend" THEN do_not_break_here(run)
        \* GB9c
        ELSE IF incb_breakables[run.position + 1] = DoNotBreak
        THEN do_not_break_here(run)
        \* GB11
        ELSE IF /\ _ep(pc(is_following(is_following(run, {"ZWJ"}, FALSE, FALSE),
                                       {"Extend"}, TRUE, FALSE)))
                /\ _ep(cc(run))
        THEN do_not_break_here(run)
        ELSE run

RECURSIVE GBPass(_, _)
GBPass(run, incb_breakables) ==
    LET r == walk(run, 1, FALSE)
    IN IF r.condition THEN GBPass(GBRule(r, incb_breakables), incb_breakables)
       ELSE r

(***************************************************************************)
(* The regional-indicator pairing loops shared by GB12/13 and LB30a        *)
(* (graphemecluster.py 143-155, linebreak.py 397-409); RI names the        *)
(* property value of a regional indicator in the engine at hand.           *)
(***************************************************************************)
\* while run.curr != RI: if not run.walk(): break
RECURSIVE SeekRI(_, _)
SeekRI(run, RI) ==
    IF curr(run) # RI
    THEN LET r == walk(run, 1, FALSE)
         IN IF ~r.condition THEN r ELSE SeekRI(r, RI)
    ELSE run

\* faulty variant of the pairing loop that walks once, not twice, after a
\* pair: it joins every indicator of a run to the one before
RECURSIVE PairRI_every(_, _)
PairRI_every(run, RI) ==
    IF prev(run) = RI /\ curr(run) = RI
    THEN LET r1 == walk(do_not_break_here(run), 1, FALSE)
         IN IF ~r1.condition THEN r1 ELSE PairRI_every(r1, RI)
    ELSE run

\* while run.prev == run.curr == RI: do_not_break_here; walk; walk
RECURSIVE PairRI(_, _)
PairRI(run, RI) ==
    IF prev(run) = RI /\ curr(run) = RI
    THEN LET r1 == walk(do_not_break_here(run), 1, FALSE)
         IN IF ~r1.condition THEN r1
            ELSE LET r2 == walk(r1, 1, FALSE)
                 IN IF ~r2.condition THEN r2 ELSE PairRI(r2, RI)
    ELSE run

\* while 1: ...
RECURSIVE RIPass(_, _)
RIPass(run, RI) ==
    LET r == walk(SeekRI(run, RI), 1, FALSE)
    IN IF ~r.condition THEN r ELSE RIPass(PairRI(r, RI), RI)

\* the cursor of the grapheme engine after its last pass, before set_default
GraphemeRun(s) ==
    RIPass(head(GBPass(
               Run(s, [ch \in CodePoints |-> grapheme_cluster_break(ch)]),
               InCBPass(Run(s, [ch \in CodePoints |->
                                   indic_conjunct_break(ch)])).breakables)),
           "Regional_Indicator")

grapheme_cluster_breakables(s) ==
    IF s = <<>> THEN <<>>
    ELSE literal_breakables(set_default(GraphemeRun(s), Break), Break)

(***************************************************************************)
(* uniseg/wordbreak.py: class Runner and word_breakables.                  *)
(* A Runner is a record [text, values, skip, breakables, i]; its           *)
(* breakables are 0 / 1 and start as 1.                                    *)
(***************************************************************************)
AHLetterTuple == {"ALetter", "Hebrew_Letter"}
MidNumLetQTuple == {"MidNumLet", "Single_Quote"}

Runner(s) ==
    [text |-> s,
     values |-> [k \in 1..Len(s) |-> word_break(s[k])],
     skip |-> {},
     breakables |-> [k \in 1..Len(s) |-> 1],
     i |-> 0]

RECURSIVE Runner_skip_from(_, _, _)
Runner_skip_from(run, i, vec) ==
    IF 0 <= i /\ i < Len(run.text) /\ run.values[i + 1] \in run.skip
    THEN Runner_skip_from(run, i + vec, vec)
    ELSE i

RECURSIVE Runner_step(_, _, _, _)
Runner_step(run, i, vec, n) ==
    IF n = 0 THEN i
    ELSE Runner_step(run, Runner_skip_from(run, i + vec, vec), vec, n - 1)

Runner_value(run, offset) ==
    LET vec == IF offset > 0 THEN 1 ELSE -1
        n == IF offset < 0 THEN -offset ELSE offset
        i == IF offset = 0 THEN run.i ELSE Runner_step(run, run.i, vec, n)
    IN IF 0 <= i /\ i < Len(run.text) THEN run.values[i + 1] ELSE None

Runner_curr(run) == Runner_value(run, 0)
Runner_prev(run) == Runner_value(run, -1)
\* faulty variant of next that does not look through the skip set
Runner_next_raw(run) ==
    IF run.i + 1 < Len(run.text) THEN run.values[run.i + 2] ELSE None

Runner_next(run) == Runner_value(run, 1)
Runner_chr(run) == run.text[run.i + 1]

\* walk: the value returned is Runner_valid of the result
RECURSIVE Runner_walk_skip(_, _)
Runner_walk_skip(run, i) ==
    IF i < Len(run.text) /\ run.values[i + 1] \in run.skip
    THEN Runner_walk_skip(run, i + 1)
    ELSE i

\* faulty variant of walk that does not step off the last position
Runner_walk_stuck(run) ==
    IF Runner_walk_skip(run, run.i + 1) < Len(run.text)
    THEN [run EXCEPT !.i = Runner_walk_skip(run, run.i + 1)]
    ELSE run

Runner_walk(run) == [run EXCEPT !.i = Runner_walk_skip(run, run.i + 1)]
Runner_valid(run) == run.i < Len(run.text)

Runner_head(run) == [run EXCEPT !.i = 0]
Runner_skip(run, values) == [run EXCEPT !.skip = values]
Runner_break_here(run) == [run EXCEPT !.breakables[run.i + 1] = 1]
Runner_do_not_break_here(run) == [run EXCEPT !.breakables[run.i + 1] = 0]

\* faulty variant of the first loop's rule chain that tests WB4 before
\* WB3a / WB3b
WBRule1_WB4_first(run) ==
    LET p == Runner_prev(run)
        c == Runner_curr(run)
    IN  IF p = "CR" /\ c = "LF" THEN Runner_do_not_break_here(run)
        ELSE IF c \in {"Format", "Extend", "ZWJ"}
        THEN Runner_do_not_break_here(run)
        ELSE IF p \in {"Newline", "CR", "LF"} THEN Runner_break_here(run)
        ELSE IF c \in {"Newline", "CR", "LF"} THEN Runner_break_here(run)
        ELSE IF p = "ZWJ" /\ extended_pictographic(Runner_chr(run))
        THEN Runner_do_not_break_here(run)
        ELSE IF p = "WSegSpace" /\ c = "WSegSpace"
        THEN Runner_do_not_break_here(run)
        ELSE run

\* body of the first loop: WB3 .. WB4
WBRule1(run) ==
    LET p == Runner_prev(run)
        c == Runner_curr(run)
    IN  \* WB3
        IF p = "CR" /\ c = "LF" THEN Runner_do_not_break_here(run)
        \* WB3a
        ELSE IF p \in {"Newline", "CR", "LF"} THEN Runner_break_here(run)
        \* WB3b
        ELSE IF c \in {"Newline", "CR", "LF"} THEN Runner_break_here(run)
        \* WB3c
        ELSE IF p = "ZWJ" /\ extended_pictographic(Runner_chr(run))
        THEN Runner_do_not_break_here(run)
        \* WB3d
        ELSE IF p = "WSegSpace" /\ c = "WSegSpace"
        THEN Runner_do_not_break_here(run)
        \* WB4
        ELSE IF c \in {"Format", "Extend", "ZWJ"}
        THEN Runner_do_not_break_here(run)
        ELSE run

RECURSIVE WBPass1(_)
WBPass1(run) ==
    LET r == Runner_walk(run)
    IN IF Runner_valid(r) THEN WBPass1(WBRule1(r)) ELSE r

\* body of the second loop: WB5 .. WB13b; every branch is do_not_break_here
WBMatch2(run) ==
    LET p == Runner_prev(run)
        c == Runner_curr(run)
        n == Runner_next(run)
        pp == Runner_value(run, -2)
    IN  \* WB5
        \/ (p \in AHLetterTuple /\ c \in AHLetterTuple)
        \* WB6
        \/ (p \in AHLetterTuple /\ c \in {"MidLetter"} \cup MidNumLetQTuple
            /\ n \in AHLetterTuple)
        \* WB7
        \/ (pp \in AHLetterTuple /\ p \in {"MidLetter"} \cup MidNumLetQTuple
            /\ c \in AHLetterTuple)
        \* WB7a
        \/ (p = "Hebrew_Letter" /\ c = "Single_Quote")
        \* WB7b
        \/ (p = "Hebrew_Letter" /\ c = "Double_Quote" /\ n = "Hebrew_Letter")
        \* WB7c
        \/ (pp = "Hebrew_Letter" /\ p = "Double_Quote" /\ c = "Hebrew_Letter")
        \* WB8
        \/ (p = "Numeric" /\ c = "Numeric")
        \* WB9
        \/ (p \in AHLetterTuple /\ c = "Numeric")
        \* WB10
        \/ (p = "Numeric" /\ c \in AHLetterTuple)
        \* WB11
        \/ (pp = "Numeric" /\ p \in {"MidNum"} \cup MidNumLetQTuple
            /\ c = "Numeric")
        \* WB12
        \/ (p = "Numeric" /\ c \in {"MidNum"} \cup MidNumLetQTuple
            /\ n = "Numeric")
        \* WB13
        \/ (p = "Katakana" /\ c = "Katakana")
        \* WB13a
        \/ (p \in AHLetterTuple \cup {"Numeric", "Katakana", "ExtendNumLet"}
            /\ c = "ExtendNumLet")
        \* WB13b
        \/ (p = "ExtendNumLet"
            /\ c \in AHLetterTuple \cup {"Numeric", "Katakana"})

WBRule2(run) == IF WBMatch2(run) THEN Runner_do_not_break_here(run) ELSE run

RECURSIVE WBPass2(_)
WBPass2(run) ==
    LET r == Runner_walk(run)
    IN IF Runner_valid(r) THEN WBPass2(WBRule2(r)) ELSE r

\* WB15: the pairing loops over a Runner
RECURSIVE WBSeekRI(_)
WBSeekRI(run) ==
    IF Runner_curr(run) # "Regional_Indicator"
    THEN LET r == Runner_walk(run)
         IN IF ~Runner_valid(r) THEN r ELSE WBSeekRI(r)
    ELSE run

RECURSIVE WBPairRI(_)
WBPairRI(run) ==
    IF Runner_prev(run) = "Regional_Indicator"
       /\ Runner_curr(run) = "Regional_Indicator"
    THEN LET r1 == Runner_walk(Runner_do_not_break_here(run))
         IN IF ~Runner_valid(r1) THEN r1
            ELSE LET r2 == Runner_walk(r1)
                 IN IF ~Runner_valid(r2) THEN r2 ELSE WBPairRI(r2)
    ELSE run

RECURSIVE WBPassRI(_)
WBPassRI(run) ==
    LET r == Runner_walk(WBSeekRI(run))
    IN IF ~Runner_valid(r) THEN r ELSE WBPassRI(WBPairRI(r))

WordRun(s) ==
    WBPassRI(Runner_head(WBPass2(
        Runner_skip(Runner_head(WBPass1(Runner(s))),
                    {"Extend", "Format", "ZWJ"}))))

word_breakables(s) == IF s = <<>> THEN <<>> ELSE WordRun(s).breakables

(***************************************************************************)
(* uniseg/sentencebreak.py                                                 *)
(***************************************************************************)
ParaSepTuple == {"Sep", "CR", "LF"}
SATermTuple == {"STerm", "ATerm"}

\* body of the first loop: SB3, SB4
SBRule1(run) ==
    IF prev(run) = "CR" /\ curr(run) = "LF" THEN do_not_break_here(run)
    ELSE IF prev(run) \in ParaSepTuple THEN break_here(run)
    ELSE run

RECURSIVE SBPass1(_)
SBPass1(run) ==
    LET r == walk(run, 1, FALSE)
    IN IF r.condition THEN SBPass1(SBRule1(r)) ELSE r

\* faulty variant of the look-behind that also passes over lower-case
\* letters
SBBeforeCloseSp_lower(run) ==
    prev(is_following(is_following(run, {"Sp"}, TRUE, FALSE),
                      {"Close", "Lower"}, TRUE, FALSE))

\* is_following((Sp,), greedy).is_following((Close,), greedy).prev
SBBeforeCloseSp(run) ==
    prev(is_following(is_following(run, {"Sp"}, TRUE, FALSE),
                      {"Close"}, TRUE, FALSE))

\* body of the second loop: SB6 .. SB11 and the final else
SBRule2(run) ==
    LET p == prev(run)
        c == curr(run)
    IN  \* SB6
        IF p = "ATerm" /\ c = "Numeric" THEN do_not_break_here(run)
        \* SB7
        ELSE IF attr(run, -2) \in {"Upper", "Lower"} /\ p = "ATerm"
                /\ c = "Upper"
        THEN do_not_break_here(run)
        \* SB8
        ELSE IF /\ SBBeforeCloseSp(run) = "ATerm"
                /\ \/ /\ c \in {"Extend", "Format", "Sp", "Numeric",
                                "SContinue", "Close"}
                      /\ next(is_leading(run, {"Extend", "Format", "Sp",
                                               "Numeric", "SContinue", "Close"},
                                         TRUE, FALSE)) = "Lower"
                   \/ c = "Lower"
        THEN do_not_break_here(run)
        \* SB8a
        ELSE IF SBBeforeCloseSp(run) \in SATermTuple
                /\ c \in {"SContinue"} \cup SATermTuple
        THEN do_not_break_here(run)
        \* SB9
        ELSE IF prev(is_following(run, {"Close"}, TRUE, FALSE)) \in SATermTuple
                /\ c \in {"Close", "Sp"} \cup ParaSepTuple
        THEN do_not_break_here(run)
        \* SB10
        ELSE IF SBBeforeCloseSp(run) \in SATermTuple
                /\ c \in {"Sp"} \cup ParaSepTuple
        THEN do_not_break_here(run)
        \* SB11
        ELSE IF \/ SBBeforeCloseSp(run) \in SATermTuple
                \/ SBBeforeCloseSp(is_following(run, ParaSepTuple, FALSE, TRUE))
                       \in SATermTuple
        THEN break_here(run)
        ELSE do_not_break_here(run)

RECURSIVE SBPass2(_)
SBPass2(run) ==
    LET r == walk(run, 1, FALSE)
    IN IF r.condition THEN SBPass2(SBRule2(r)) ELSE r

\* SB5: set_skip_table(x not in (Extend, Format) for x in run.attributes())
SBSkipTable(run) ==
    [i \in 1..Len(run.values) |->
        IF run.values[i] \notin {"Extend", "Format"} THEN 1 ELSE 0]

SBSkip5(run) == set_skip_table(run, SBSkipTable(run))

\* the cursor of the sentence engine after its last pass, before set_default
SentenceRun(s) ==
    SBPass2(head(SBSkip5(SBPass1(break_here(
        Run(s, [ch \in CodePoints |-> sentence_break(ch)]))))))

sentence_breakables(s) ==
    literal_breakables(set_default(SentenceRun(s), DoNotBreak), Break)

(***************************************************************************)
(* uniseg/linebreak.py                                                     *)
(***************************************************************************)
EastAsianTuple == {"F", "W", "H"}

resolve_lb1_linebreak(ch) ==
    LET lb == line_break(ch)
        cat == category(ch)
    IN IF lb \in {"AI", "SG", "XX"} THEN "AL"
       ELSE IF lb = "SA" THEN (IF cat \in {"Mn", "Mc"} THEN "CM" ELSE "AL")
       ELSE IF lb = "CJ" THEN "NS"
       ELSE lb

\* LB1: run = Run(s, resolve_lb1_linebreak)
LBRun(s) == Run(s, [ch \in CodePoints |-> resolve_lb1_linebreak(ch)])

\* faulty variant of the first loop's rule chain that tests LB6 / LB7
\* before LB4 / LB5
LBRule1_LB6_first(run) ==
    LET p == prev(run)
        c == curr(run)
    IN  IF c \in {"BK", "CR", "LF", "NL"} THEN do_not_break_here(run)
        ELSE IF c \in {"SP", "ZW"} THEN do_not_break_here(run)
        ELSE IF p = "BK" THEN break_here(run)
        ELSE IF p = "CR" /\ c = "LF" THEN do_not_break_here(run)
        ELSE IF p \in {"CR", "LF", "NL"} THEN break_here(run)
        ELSE IF prev(is_following(run, {"SP"}, TRUE, FALSE)) = "ZW"
        THEN break_here(run)
        ELSE IF p = "ZWJ" THEN do_not_break_here(run)
        ELSE run

\* body of the first loop: LB4 .. LB8a
LBRule1(run) ==
    LET p == prev(run)
        c == curr(run)
    IN  \* LB4
        IF p = "BK" THEN break_here(run)
        \* LB5
        ELSE IF p = "CR" /\ c = "LF" THEN do_not_break_here(run)
        ELSE IF p \in {"CR", "LF", "NL"} THEN break_here(run)
        \* LB6
        ELSE IF c \in {"BK", "CR", "LF", "NL"} THEN do_not_break_here(run)
        \* LB7
        ELSE IF c \in {"SP", "ZW"} THEN do_not_break_here(run)
        \* LB8
        ELSE IF prev(is_following(run, {"SP"}, TRUE, FALSE)) = "ZW"
        THEN break_here(run)
        \* LB8a
        ELSE IF p = "ZWJ" THEN do_not_break_here(run)
        ELSE run

RECURSIVE LBPass1(_)
LBPass1(run) ==
    LET r == walk(run, 1, FALSE)
    IN IF r.condition THEN LBPass1(LBRule1(r)) ELSE r

\* faulty variant of the LB9 condition that attaches every CM or ZWJ,
\* whatever stands before it
LB9Attached_any(run) == curr(run) \in {"CM", "ZWJ"}

\* LB9: the condition under which the mark at the cursor is attached
LB9Attached(run) ==
    /\ prev(is_following(run, {"CM", "ZWJ"}, TRUE, FALSE))
           \notin {"BK", "CR", "LF", "NL", "SP", "ZW"}
    /\ curr(run) \in {"CM", "ZWJ"}

\* the LB9 loop; st is [run, skip_table]
RECURSIVE LBPass9(_)
LBPass9(st) ==
    LET r == walk(st.run, 1, FALSE)
    IN IF r.condition
       THEN IF LB9Attached(r)
            THEN LBPass9([run |-> do_not_break_here(r),
                          skip_table |-> Append(st.skip_table, 0)])
            ELSE LBPass9([run |-> r,
                          skip_table |-> Append(st.skip_table, 1)])
       ELSE [run |-> r, skip_table |-> st.skip_table]

\* run.set_skip_table(skip_table) after the LB9 loop
LBSkip9(st) == set_skip_table(st.run, st.skip_table)

\* LB10: the body of the loop, a mark left alone becomes an alphabetic
LB10Fix(run) ==
    IF curr(run) \in {"CM", "ZWJ"}
    THEN set_attr(set_char(run, "A"), "AL")
    ELSE run

\* the LB10 loop
RECURSIVE LBPass10(_)
LBPass10(run) ==
    LET r == walk(LB10Fix(run), 1, FALSE)
    IN IF ~r.condition THEN r ELSE LBPass10(r)

Cat(ch, cat) == ch # None /\ category(ch) = cat
NotCat(ch, cat) == ch # None /\ category(ch) # cat
NotEastAsian(ch) == ch # None /\ east_asian_width(ch) \notin EastAsianTuple

LB15a(run) ==
    LET run0 == is_following(run, {"SP"}, TRUE, FALSE)
        run1 == is_following(run0, {"QU"}, FALSE, FALSE)
    IN /\ run0.condition /\ Cat(pc(run0), "Pi")
       /\ \/ prev(run1) \in {"BK", "CR", "LF", "NL", "OP", "QU", "GL", "SP", "ZW"}
          \/ is_sot(run1)

LB15b(run) ==
    /\ Cat(cc(run), "Pf") /\ curr(run) = "QU"
    /\ \/ is_leading(run, {"SP", "GL", "WJ", "CL", "QU", "CP", "EX", "IS",
                           "SY", "BK", "CR", "LF", "NL", "ZW"},
                     FALSE, FALSE).condition
       \/ is_eot(run)

\* In the last disjunct run0 is still the cursor bound by LB15a while the
\* right-hand side of the assignment is evaluated, and run0.is_sot is not
\* called: a bound method is true.
LB19a(run) ==
    LET run0 == is_following(run, {"SP"}, TRUE, FALSE)
    IN \/ (NotEastAsian(pc(run)) /\ curr(run) = "QU")
       \/ (curr(run) = "QU" /\ (NotEastAsian(nc(run)) \/ is_eot(run)))
       \/ (prev(run) = "QU" /\ NotEastAsian(cc(run)))
       \/ /\ is_following(run, {"QU"}, FALSE, FALSE).condition
          /\ (NotEastAsian(pc(run0)) \/ TRUE)

LB20a(run) ==
    LET run0 == is_following(run, {"HY", "BA"}, FALSE, FALSE)
    IN /\ run0.condition
       /\ \/ prev(run0) \in {"BK", "CR", "LF", "NL", "SP", "ZW", "CB", "GL"}
          \/ is_sot(run0)
       /\ curr(run) = "AL"
       /\ (prev(run) = "HY" \/ pc(run) = "U+2010")

LB25(run) ==
    LET p == prev(run)
        c == curr(run)
        n == next(run)
        num == prev(is_following(run, {"SY", "IS"}, TRUE, FALSE))
    IN \/ /\ prev(is_following(is_following(run, {"CL", "CP"}, FALSE, FALSE),
                               {"SY", "IS"}, TRUE, FALSE)) = "NU"
          /\ c \in {"PO", "PR"}
       \/ (num = "NU" /\ c \in {"PO", "PR"})
       \/ (p \in {"PO", "PR"} /\ c = "OP" /\ n = "NU")
       \/ (p \in {"PO", "PR"} /\ c = "OP" /\ n = "IS" /\ attr(run, 2) = "NU")
       \/ (p \in {"PO", "PR"} /\ c = "NU")
       \/ (p \in {"HY", "IS"} /\ c = "NU")
       \/ (num = "NU" /\ c = "NU")

LB28a(run) ==
    LET p == prev(run)
        c == curr(run)
        dc == "U+25CC"
    IN \/ (p = "AP" /\ (c \in {"AK", "AS"} \/ cc(run) = dc))
       \/ ((p \in {"AK", "AS"} \/ pc(run) = dc) /\ c \in {"VF", "VI"})
       \/ /\ (attr(run, -2) \in {"AK", "AS"} \/ char(run, -2) = dc)
          /\ p = "VI"
          /\ (c = "AK" \/ cc(run) = dc)
       \/ /\ (p \in {"AK", "AS"} \/ pc(run) = dc)
          /\ (c \in {"AK", "AS"} \/ cc(run) = dc)
          /\ next(run) = "VF"

\* body of the fourth loop: LB11 .. LB30
LBRule3(run) ==
    LET p == prev(run)
        c == curr(run)
        n == next(run)
        sp == prev(is_following(run, {"SP"}, TRUE, FALSE))
        Hangul == {"JL", "JV", "JT", "H2", "H3"}
    IN  \* LB11
        IF c = "WJ" \/ p = "WJ" THEN do_not_break_here(run)
        \* LB12
        ELSE IF p = "GL" THEN do_not_break_here(run)
        \* LB12a
        ELSE IF p \notin {"SP", "BA", "HY"} /\ c = "GL"
        THEN do_not_break_here(run)
        \* LB13
        ELSE IF c \in {"CL", "CP", "EX", "SY"} THEN do_not_break_here(run)
        \* LB14
        ELSE IF sp = "OP" THEN do_not_break_here(run)
        ELSE IF LB15a(run) THEN do_not_break_here(run)
        ELSE IF LB15b(run) THEN do_not_break_here(run)
        \* LB15c
        ELSE IF p = "SP" /\ c = "IS" /\ n = "NU" THEN break_here(run)
        \* LB15d
        ELSE IF c = "IS" THEN do_not_break_here(run)
        \* LB16
        ELSE IF sp \in {"CL", "CP"} /\ c = "NS" THEN do_not_break_here(run)
        \* LB17
        ELSE IF sp = "B2" /\ c = "B2" THEN do_not_break_here(run)
        \* LB18
        ELSE IF p = "SP" THEN break_here(run)
        \* LB19
        ELSE IF \/ (c = "QU" /\ NotCat(cc(run), "Pi"))
                \/ (p = "QU" /\ NotCat(pc(run), "Pi"))
        THEN do_not_break_here(run)
        ELSE IF LB19a(run) THEN do_not_break_here(run)
        \* LB20
        ELSE IF c = "CB" \/ p = "CB" THEN break_here(run)
        ELSE IF LB20a(run) THEN do_not_break_here(run)
        \* LB21
        ELSE IF c \in {"BA", "HY", "NS"} \/ p = "BB" THEN do_not_break_here(run)
        \* LB21a
        ELSE IF prev(is_following(run, {"HY", "BA"}, FALSE, FALSE)) = "HL"
                /\ c # "HL"
        THEN do_not_break_here(run)
        \* LB21b
        ELSE IF p = "SY" /\ c = "HL" THEN do_not_break_here(run)
        \* LB22
        ELSE IF c = "IN" THEN do_not_break_here(run)
        \* LB23
        ELSE IF \/ (p \in {"AL", "HL"} /\ c = "NU")
                \/ (p = "NU" /\ c \in {"AL", "HL"})
        THEN do_not_break_here(run)
        \* LB23a
        ELSE IF \/ (p = "PR" /\ c \in {"ID", "EB", "EM"})
                \/ (p \in {"ID", "EB", "EM"} /\ c = "PO")
        THEN do_not_break_here(run)
        \* LB24
        ELSE IF \/ (p \in {"PR", "PO"} /\ c \in {"AL", "HL"})
                \/ (p \in {"AL", "HL"} /\ c \in {"PR", "PO"})
        THEN do_not_break_here(run)
        ELSE IF LB25(run) THEN do_not_break_here(run)
        \* LB26
        ELSE IF \/ (p = "JL" /\ c \in {"JL", "JV", "H2", "H3"})
                \/ (p \in {"JV", "H2"} /\ c \in {"JV", "JT"})
                \/ (p \in {"JT", "H3"} /\ c = "JT")
        THEN do_not_break_here(run)
        \* LB27
        ELSE IF \/ (p \in Hangul /\ c = "PO")
                \/ (p = "PR" /\ c \in Hangul)
        THEN do_not_break_here(run)
        \* LB28
        ELSE IF p \in {"AL", "HL"} /\ c \in {"AL", "HL"}
        THEN do_not_break_here(run)
        ELSE IF LB28a(run) THEN do_not_break_here(run)
        \* LB29
        ELSE IF p = "IS" /\ c \in {"AL", "HL"} THEN do_not_break_here(run)
        \* LB30
        ELSE IF \/ /\ p \in {"AL", "HL", "NU"} /\ c = "OP"
                   /\ NotEastAsian(cc(run))
                \/ /\ p = "CP" /\ NotEastAsian(pc(run))
                   /\ c \in {"AL", "HL", "NU"}
        THEN do_not_break_here(run)
        ELSE run

RECURSIVE LBPass3(_)
LBPass3(run) ==
    LET r == walk(run, 1, FALSE)
    IN IF r.condition THEN LBPass3(LBRule3(r)) ELSE r

\* body of the last loop: LB30b
LBRule30b(run) ==
    IF \/ (prev(run) = "EB" /\ curr(run) = "EM")
       \/ /\ Cat(pc(run), "Cn") /\ extended_pictographic(pc(run))
          /\ curr(run) = "EM"
    THEN do_not_break_here(run)
    ELSE run

RECURSIVE LBPass30b(_)
LBPass30b(run) ==
    LET r == walk(run, 1, FALSE)
    IN IF r.condition THEN LBPass30b(LBRule30b(r)) ELSE r

\* the cursor of the line-break engine after its last pass, before
\* set_default; legacy is accepted and never read
LineRun(s, legacy) ==
    LBPass30b(head(RIPass(head(LBPass3(head(LBPass10(head(LBSkip9(
        LBPass9([run |-> head(LBPass1(do_not_break_here(LBRun(s)))),
                 skip_table |-> <<1>>]))))))),
        "RI")))

line_break_breakables(s, legacy) ==
    IF s = <<>> THEN <<>>
    ELSE literal_breakables(set_default(LineRun(s, legacy), Break), Break)

(***************************************************************************)
(* The facade: K_breakables, K_boundaries, K_units for the four kinds      *)
(* (grapheme_cluster_boundaries / grapheme_clusters, word_boundaries /     *)
(* words, sentence_boundaries / sentences, line_break_boundaries /         *)
(* line_break_units).                                                      *)
(***************************************************************************)
Kinds == {"grapheme_cluster", "word", "sentence", "line_break"}

K_breakables(K, s, legacy) ==
    IF K = "grapheme_cluster" THEN grapheme_cluster_breakables(s)
    ELSE IF K = "word" THEN word_breakables(s)
    ELSE IF K = "sentence" THEN sentence_breakables(s)
    ELSE line_break_breakables(s, legacy)

\* A tailor is None or a function (s, breakables) -> breakables.  The
\* tailors of the model copy the vector and overwrite one position: the
\* record [given |-> TRUE, at |-> p, to |-> v] yields v at position p (when
\* p is a position of s); NoTailor stands for tailor=None, under which the
\* vector is used as it is.
NoTailor == [given |-> FALSE, at |-> 0, to |-> 0]

ApplyTailor(tailor, s, breakables) ==
    [i \in 1..Len(breakables) |->
        IF tailor.given /\ i = tailor.at + 1 THEN tailor.to
        ELSE breakables[i]]

\* faulty variant of Tailored that never calls the tailor
Untailored(K, s, legacy, tailor) == K_breakables(K, s, legacy)

\* breakables = K_breakables(s); if tailor is not None: breakables = tailor(...)
Tailored(K, s, legacy, tailor) ==
    ApplyTailor(tailor, s, K_breakables(K, s, legacy))

K_boundaries(K, s, legacy, tailor) == boundaries(Tailored(K, s, legacy, tailor))

K_units(K, s, legacy, tailor) == break_units(s, Tailored(K, s, legacy, tailor))

\* segment every unit again, without tailor, and flatten
RECURSIVE Resegmented(_, _, _)
Resegmented(K, units, legacy) ==
    IF units = <<>> THEN <<>>
    ELSE K_units(K, Head(units), legacy, NoTailor)
         \o Resegmented(K, Tail(units), legacy)

(***************************************************************************)
(* The engines, one loop iteration at a time.  A phase names the loop the  *)
(* engine is in; every loop of the four engines has the shape              *)
(* "while run.walk(): rule", so one step walks the cursor and, when the    *)
(* cursor is still on the text, applies the rule of the phase.             *)
(***************************************************************************)
WordPhases == {"wb1", "wb2", "wb15"}

\* the statements of K_breakables before its first loop
StartCursor(K, s) ==
    IF K = "grapheme_cluster"
    THEN Run(s, [ch \in CodePoints |-> indic_conjunct_break(ch)])
    ELSE IF K = "word" THEN Runner(s)
    ELSE IF K = "sentence"
    THEN break_here(Run(s, [ch \in CodePoints |-> sentence_break(ch)]))
    ELSE do_not_break_here(LBRun(s))

FirstPhase(K) ==
    IF K = "grapheme_cluster" THEN "incb"
    ELSE IF K = "word" THEN "wb1"
    ELSE IF K = "sentence" THEN "sb1"
    ELSE "lb1"

\* the walk that opens one iteration of the loop of phase ph
PhaseWalk(ph, run) ==
    IF ph \in {"wb1", "wb2"} THEN Runner_walk(run)
    ELSE IF ph = "wb15" THEN Runner_walk(WBSeekRI(run))
    ELSE IF ph = "gb12" THEN walk(SeekRI(run, "Regional_Indicator"), 1, FALSE)
    ELSE IF ph = "lb30a" THEN walk(SeekRI(run, "RI"), 1, FALSE)
    ELSE IF ph = "lb10" THEN walk(LB10Fix(run), 1, FALSE)
    ELSE walk(run, 1, FALSE)

\* the loop condition after the walk
PhaseValid(ph, run) ==
    IF ph \in WordPhases THEN Runner_valid(run) ELSE run.condition

\* the body of the loop of phase ph, at a cursor the walk left on the text
PhaseRule(ph, run, incb_breakables) ==
    IF ph = "incb" THEN InCBRule(run)
    ELSE IF ph = "gb" THEN GBRule(run, incb_breakables)
    ELSE IF ph = "gb12" THEN PairRI(run, "Regional_Indicator")
    ELSE IF ph = "wb1" THEN WBRule1(run)
    ELSE IF ph = "wb2" THEN WBRule2(run)
    ELSE IF ph = "wb15" THEN WBPairRI(run)
    ELSE IF ph = "sb1" THEN SBRule1(run)
    ELSE IF ph = "sb2" THEN SBRule2(run)
    ELSE IF ph = "lb1" THEN LBRule1(run)
    ELSE IF ph = "lb9"
    THEN IF LB9Attached(run) THEN do_not_break_here(run) ELSE run
    ELSE IF ph = "lb3" THEN LBRule3(run)
    ELSE IF ph = "lb30a" THEN PairRI(run, "RI")
    ELSE IF ph = "lb30b" THEN LBRule30b(run)
    ELSE run

\* the skip_table the LB9 loop builds beside the cursor
PhaseTable(ph, run, skip_table) ==
    IF ph = "lb9"
    THEN Append(skip_table, IF LB9Attached(run) THEN 0 ELSE 1)
    ELSE skip_table

\* the loop that follows the loop of phase ph; "final" after the last one
NextPhase(ph) ==
    IF ph = "incb" THEN "gb"
    ELSE IF ph = "gb" THEN "gb12"
    ELSE IF ph = "wb1" THEN "wb2"
    ELSE IF ph = "wb2" THEN "wb15"
    ELSE IF ph = "sb1" THEN "sb2"
    ELSE IF ph = "lb1" THEN "lb9"
    ELSE IF ph = "lb9" THEN "lb10"
    ELSE IF ph = "lb10" THEN "lb3"
    ELSE IF ph = "lb3" THEN "lb30a"
    ELSE IF ph = "lb30a" THEN "lb30b"
    ELSE "final"

\* the statements between the loop of phase ph, left with cursor run, and
\* the next loop
NextCursor(ph, run, skip_table) ==
    IF ph = "incb"
    THEN Run(run.text, [ch \in CodePoints |-> grapheme_cluster_break(ch)])
    ELSE IF ph = "wb1"
    THEN Runner_skip(Runner_head(run), {"Extend", "Format", "ZWJ"})
    ELSE IF ph = "wb2" THEN Runner_head(run)
    ELSE IF ph = "sb1" THEN head(SBSkip5(run))
    ELSE IF ph = "lb9" THEN head(set_skip_table(run, skip_table))
    ELSE IF ph \in {"gb", "lb1", "lb10", "lb3", "lb30a"} THEN head(run)
    ELSE run

\* the default of the engine of kind K: the argument of its set_default,
\* and for the word engine the value its vector is initialised to
DefaultOf(K) == IF K = "sentence" THEN DoNotBreak ELSE Break

\* the statements after the last loop: set_default, where the engine has one
FinalCursor(K, run) ==
    IF K = "word" THEN run ELSE set_default(run, DefaultOf(K))

\* the vector K_breakables returns from the final cursor
FinalVector(K, run) ==
    IF K = "word" THEN run.breakables ELSE literal_breakables(run, Break)

\* an entry of the vector of a cursor as Break / DoNotBreak / None: Run
\* keeps these three, Runner keeps 1 and 0 (2 stands for "no call" in the
\* blank vector below)
Decision(ph, x) ==
    IF ph \in WordPhases
    THEN IF x = 1 THEN Break ELSE IF x = 0 THEN DoNotBreak ELSE None
    ELSE x

\* a cursor whose vector is blank: a rule applied to it writes exactly the
\* positions on which it calls break_here or do_not_break_here
Blank(ph, run) ==
    [run EXCEPT !.breakables =
        [i \in 1..Len(run.text) |-> IF ph \in WordPhases THEN 2 ELSE None]]

\* the calls of break_here / do_not_break_here one loop iteration makes:
\* position -> Break, DoNotBreak or None
Calls(ph, run, incb_breakables) ==
    [i \in 1..Len(run.text) |->
        Decision(ph, PhaseRule(ph, Blank(ph, run),
                               incb_breakables).breakables[i])]

\* the first call recorded for every position
FirstCalls(old, calls) ==
    [i \in 1..Len(old) |-> IF old[i] # None THEN old[i] ELSE calls[i]]

Blanks(s) == [i \in 1..Len(s) |-> None]

(***************************************************************************)
(* The state machine: a client takes a text and calls, for one boundary    *)
(* kind, K_breakables, then K_boundaries and K_units with some tailor, and  *)
(* finally segments again every unit it received from the default vector.  *)
(***************************************************************************)
VARIABLES
    text,       \* the input string s
    kind,       \* the boundary kind K
    legacy,     \* the legacy argument of the line-break operations
    tailor,     \* the tailor argument, or NoTailor
    stage,      \* the client's position
    vec,        \* result of K_breakables(s)
    bnds,       \* result of K_boundaries(s, tailor)
    units,      \* result of K_units(s, tailor)
    reunits,    \* the units of the units
    phase,      \* the loop the engine is in, when it runs step by step
    cursor,     \* the engine's Run / Runner
    incb,       \* graphemecluster.py: incb_breakables
    table,      \* linebreak.py: the skip_table of the LB9 loop
    first,      \* history: the first call made on every position
    tried,      \* history: the calls of the last loop iteration
    indices,    \* build_db_lookups.py: the table handed to splitbins
    tables,     \* build_db_lookups.py: what main() computed and emitted
    found,      \* db.py: the last lookup and what it returned
    probe       \* breaking.py: the last cursor call and what it returned

vars == <<text, kind, legacy, tailor, stage, vec, bnds, units, reunits,
          phase, cursor, incb, table, first, tried,
          indices, tables, found, probe>>

client == <<tailor, stage, bnds, units, reunits>>
engine == <<phase, cursor, incb, table, first, tried>>
aside == <<indices, tables, found, probe>>

\* the builder and the bare cursor are at rest while a segmentation runs
AsideIdle ==
    /\ indices = <<>>
    /\ tables = <<>>
    /\ found = <<>>
    /\ probe = <<>>

\* the code points the texts of each kind are drawn from: every text is
\* over one of the alphabets of its kind
Alphabets(K) ==
    IF K = "grapheme_cluster"
    THEN {{"a", "CR", "LF", "U+0308", "U+200D", "U+1F600"},
          {"a", "U+1F1E6", "U+1100", "U+1161", "U+0915", "U+094D"}}
    ELSE IF K = "word"
    THEN {{"a", "1", ".", "LF", "U+0308", "U+1F1E6"},
          {"a", "'", "U+05D0", "DQ", "U+200D", "U+1F600"}}
    ELSE IF K = "sentence"
    THEN {{"a", "A", ".", "SP", ")", "U+0308"},
          {"a", "1", "!", "SP", "CR", "LF"}}
    ELSE {{"a", "SP", "LF", "U+0308", "U+00A7", "-"},
          {"U+30A2", "SP", "U+1F1E6", "U+200D", "(", "U+201C"}}

Texts(K) == UNION {[1..n -> A] : n \in 0..MaxLen, A \in Alphabets(K)}

Tailors == {NoTailor} \cup [given : {TRUE}, at : 0..(MaxLen - 1), to : {0, 1}]

Init ==
    /\ kind \in Kinds
    /\ text \in Texts(kind)
    /\ legacy \in (IF kind = "line_break" THEN BOOLEAN ELSE {FALSE})
    /\ tailor = NoTailor
    /\ stage = "start"
    /\ vec = <<>>
    /\ bnds = <<>>
    /\ units = <<>>
    /\ reunits = <<>>
    /\ phase = "idle"
    /\ cursor = Runner(<<>>)
    /\ incb = <<>>
    /\ table = <<>>
    /\ first = <<>>
    /\ tried = <<>>
    /\ AsideIdle

\* K_breakables(s)
CallBreakables ==
    /\ stage = "start"
    /\ vec' = K_breakables(kind, text, legacy)
    /\ stage' = "breakables"
    /\ UNCHANGED <<text, kind, legacy, tailor, bnds, units, reunits, engine, aside>>

\* K_boundaries(s, tailor), for any tailor
CallBoundaries ==
    /\ stage = "breakables"
    /\ \E t \in Tailors :
        /\ tailor' = t
        /\ bnds' = K_boundaries(kind, text, legacy, t)
    /\ stage' = "boundaries"
    /\ UNCHANGED <<text, kind, legacy, vec, units, reunits, engine, aside>>

\* K_units(s, tailor), with the tailor of the boundaries call
CallUnits ==
    /\ stage = "boundaries"
    /\ units' = K_units(kind, text, legacy, tailor)
    /\ stage' = "units"
    /\ UNCHANGED <<text, kind, legacy, tailor, vec, bnds, reunits, engine, aside>>

\* K_units(u) for every unit u of an untailored K_units(s)
CallUnitsAgain ==
    /\ stage = "units"
    /\ ~tailor.given
    /\ reunits' = Resegmented(kind, units, legacy)
    /\ stage' = "done"
    /\ UNCHANGED <<text, kind, legacy, tailor, vec, bnds, units, engine, aside>>

Next == CallBreakables \/ CallBoundaries \/ CallUnits \/ CallUnitsAgain

Spec == Init /\ [][Next]_vars

(***************************************************************************)
(* The second state machine: K_breakables(s) of one kind, run one loop     *)
(* iteration at a time.                                                    *)
(***************************************************************************)
\* the state at the call of K_breakables(s), but for the kind and the text
AtCall ==
    /\ legacy = FALSE
    /\ tailor = NoTailor
    /\ stage = "engine"
    /\ vec = <<>>
    /\ bnds = <<>>
    /\ units = <<>>
    /\ reunits = <<>>
    /\ phase = "call"
    /\ cursor = Runner(<<>>)
    /\ incb = <<>>
    /\ table = <<>>
    /\ first = <<>>
    /\ tried = <<>>
    /\ AsideIdle

EngineInit ==
    /\ kind \in Kinds
    /\ text \in Texts(kind)
    /\ AtCall

\* K_breakables(s) up to its first loop; the grapheme, word and line-break
\* engines return at once on the empty string
Enter ==
    /\ phase = "call"
    /\ IF text = <<>> /\ kind # "sentence"
       THEN /\ phase' = "done"
            /\ UNCHANGED <<cursor, first>>
       ELSE /\ phase' = FirstPhase(kind)
            /\ cursor' = StartCursor(kind, text)
            /\ first' = [i \in 1..Len(text) |->
                            IF kind = "word" THEN None
                            ELSE StartCursor(kind, text).breakables[i]]
    /\ tried' = first'
    /\ table' = <<1>>
    /\ UNCHANGED <<text, kind, legacy, vec, incb, client, aside>>

\* one iteration of the loop of the phase: walk, and the rule of the phase
Iterate ==
    /\ phase \notin {"idle", "call", "final", "done"}
    /\ \E w \in {PhaseWalk(phase, cursor)} :
          /\ PhaseValid(phase, w)
          /\ cursor' = PhaseRule(phase, w, incb)
          /\ table' = PhaseTable(phase, w, table)
          /\ tried' = Calls(phase, w, incb)
    /\ first' = FirstCalls(first, tried')
    /\ UNCHANGED <<text, kind, legacy, vec, phase, incb, client, aside>>

\* the walk ends the loop of the phase: the statements up to the next loop
Leave ==
    /\ phase \notin {"idle", "call", "final", "done"}
    /\ \E w \in {PhaseWalk(phase, cursor)} :
          /\ ~PhaseValid(phase, w)
          /\ cursor' = NextCursor(phase, w, table)
    /\ phase' = NextPhase(phase)
    /\ incb' = IF phase = "incb" THEN cursor.breakables ELSE incb
    /\ first' = IF phase = "incb" THEN Blanks(text) ELSE first
    /\ tried' = Blanks(text)
    /\ UNCHANGED <<text, kind, legacy, vec, table, client, aside>>

\* after the last loop: set_default and the vector returned
Return ==
    /\ phase = "final"
    /\ phase' = "done"
    /\ cursor' = FinalCursor(kind, cursor)
    /\ vec' = FinalVector(kind, cursor')
    /\ UNCHANGED <<text, kind, legacy, incb, table, first, tried, client, aside>>

EngineNext == Enter \/ Iterate \/ Leave \/ Return

EngineSpec == EngineInit /\ [][EngineNext]_vars

(***************************************************************************)
(* The engines on texts of regional indicators: the grapheme, word and     *)
(* line-break engines, step by step, on every text up to MaxRILen over a   *)
(* regional indicator, an Extend (CM for the line-break engine), a ZWJ and *)
(* a letter.                                                               *)
(***************************************************************************)
RIAlphabet == {"U+1F1E6", "U+0308", "U+200D", "a"}

RIInit ==
    /\ kind \in Kinds \ {"sentence"}
    /\ text \in UNION {[1..n -> RIAlphabet] : n \in 0..MaxRILen}
    /\ AtCall

RISpec == RIInit /\ [][EngineNext]_vars

(***************************************************************************)
(* The grapheme engine, step by step, on every text up to MaxGBLen over    *)
(* the code points of its rules: CR, LF, Control, Extend, ZWJ,             *)
(* SpacingMark and Prepend; an Indic consonant and virama; pictographs.    *)
(***************************************************************************)
GBAlphabets ==
    {{"a", "CR", "LF", "U+0001", "U+0308", "U+200D", "U+0903", "U+0600"},
     {"a", "U+0915", "U+094D", "U+0308", "U+200D"},
     {"a", "U+1F600", "U+261D", "U+0308", "U+200D"}}

GraphemeInit ==
    /\ kind = "grapheme_cluster"
    /\ text \in UNION {[1..n -> A] : n \in 0..MaxGBLen, A \in GBAlphabets}
    /\ AtCall

GraphemeSpec == GraphemeInit /\ [][EngineNext]_vars

(***************************************************************************)
(* The sentence engine, step by step, on every text up to MaxSBLen over    *)
(* the code points of its rules: letters, ATerm, STerm, Close, Sp, Format  *)
(* and Extend, CR, LF and Sep.                                             *)
(***************************************************************************)
SBAlphabets ==
    {{"A", "a", ".", ")", "SP", "U+00AD"},
     {"a", "!", "CR", "LF", "U+2028", "U+0308"}}

SentenceInit ==
    /\ kind = "sentence"
    /\ text \in UNION {[1..n -> A] : n \in 0..MaxSBLen, A \in SBAlphabets}
    /\ AtCall

SentenceSpec == SentenceInit /\ [][EngineNext]_vars

(***************************************************************************)
(* The word engine, step by step, on every text up to MaxWBLen over the    *)
(* code points of WB3 .. WB4 (a letter, CR, LF, Newline, Extend) and       *)
(* of WB6 / WB7 (letters, MidLetter, MidNumLet, Single_Quote, Extend).     *)
(***************************************************************************)
WBAlphabets ==
    {{"a", "CR", "LF", "U+0085", "U+0308"},
     {"a", "U+05D0", ":", ".", "'", "U+0308"}}

WordInit ==
    /\ kind = "word"
    /\ text \in UNION {[1..n -> A] : n \in 0..MaxWBLen, A \in WBAlphabets}
    /\ AtCall

WordSpec == WordInit /\ [][EngineNext]_vars

(***************************************************************************)
(* The line-break engine, step by step, on every text up to MaxLBLen over  *)
(* the code points of LB4 .. LB7 (a letter, BK, CR, LF, NL, SP, ZW) and of *)
(* LB9 / LB10 (a letter, SP, CM, ZWJ, a hyphen).                           *)
(***************************************************************************)
LBAlphabets ==
    {{"a", "U+2028", "CR", "LF", "U+0085", "SP", "U+200B"},
     {"a", "SP", "U+0308", "U+200D", "-"}}

LineInit ==
    /\ kind = "line_break"
    /\ text \in UNION {[1..n -> A] : n \in 0..MaxLBLen, A \in LBAlphabets}
    /\ AtCall

LineSpec == LineInit /\ [][EngineNext]_vars

\* the loops, run one iteration at a time, return the vector of K_breakables
EngineAgrees ==
    phase = "done" => vec = K_breakables(kind, text, legacy)

(***************************************************************************)
(* Properties.                                                             *)
(***************************************************************************)
RECURSIVE Concat(_)
Concat(seqs) == IF seqs = <<>> THEN <<>> ELSE Head(seqs) \o Concat(Tail(seqs))

StrictlyIncreasing(seq) ==
    \A i \in 1..(Len(seq) - 1) : seq[i] < seq[i + 1]

HasVector == stage # "start"
HasBoundaries == stage \in {"boundaries", "units", "done"}
HasUnits == stage \in {"units", "done"}

\* C1: for every kind and every text, the empty one included, K_breakables
\* returns exactly len(s) elements, each 0 or 1.
C1_Length ==
    HasVector =>
        /\ Len(vec) = Len(text)
        /\ \A i \in 1..Len(vec) : vec[i] \in {0, 1}

C1_Witness ==
    /\ stage = "breakables" /\ kind = "sentence" /\ Len(text) = MaxLen
    /\ \E i, j \in 1..Len(vec) : vec[i] = 1 /\ vec[j] = 0

C3_Concat == HasUnits => Concat(units) = text

C3_Witness ==
    /\ stage = "units" /\ tailor.given /\ tailor.at = 0 /\ tailor.to = 0
    /\ kind = "grapheme_cluster" /\ Len(units) = 2 /\ Len(text) = MaxLen

\* C4: for the empty text every kind gives an empty vector, no boundary and
\* no unit, the sentence kind included.
C4_Empty ==
    text = <<>> =>
        /\ HasVector => vec = <<>>
        /\ HasBoundaries => bnds = <<>>
        /\ HasUnits => units = <<>>

C4_Witness == stage = "units" /\ text = <<>> /\ kind = "sentence"

\* C5: segmenting every unit of an untailored K_units(s) again and
\* flattening gives the same sequence of units.
C5_Stable == stage = "done" => reunits = units

C5_Witness ==
    /\ stage = "done" /\ kind = "line_break" /\ Len(units) >= 2
    /\ \E k \in 1..Len(units) : Len(units[k]) >= 2

\* the slices of s between consecutive elements of b
Between(s, b) == [k \in 1..(Len(b) - 1) |-> Slice(s, b[k], b[k + 1])]

ClearsBreak ==
    /\ tailor.given /\ tailor.to = 0 /\ tailor.at < Len(text)
    /\ vec[tailor.at + 1] = 1

Without(seq, x) == SelectSeq(seq, LAMBDA y : y # x)

\* the index of the default unit that ends at position p
UnitEndingAt(p) == 1 + Cardinality({q \in 1..(p - 1) : vec[q + 1] = 1})

Merged(seqs, j) ==
    [k \in 1..(Len(seqs) - 1) |->
        IF k < j THEN seqs[k]
        ELSE IF k = j THEN seqs[j] \o seqs[j + 1]
        ELSE seqs[k + 1]]

\* C7, as claimed: a tailor that changes one position i from 1 to 0 removes
\* the boundary i and merges two units, for every position i.
C7_Original ==
    (HasUnits /\ ClearsBreak) =>
        /\ bnds = Without(boundaries(vec), tailor.at)
        /\ Len(units) = Len(break_units(text, vec)) - 1

\* C7, amended: with no tailor the boundaries and units are those of the
\* default vector; a tailor that changes one position i from 1 to 0 removes
\* the boundary i and nothing else, and for i >= 1 it merges the unit ending
\* at i with the unit starting at i and leaves every other unit unchanged,
\* while for i = 0 the units are unchanged.
C7_Tailor ==
    HasUnits =>
        /\ ~tailor.given =>
              bnds = boundaries(vec) /\ units = break_units(text, vec)
        /\ ClearsBreak =>
              /\ bnds = Without(boundaries(vec), tailor.at)
              /\ tailor.at >= 1 =>
                    units = Merged(break_units(text, vec),
                                   UnitEndingAt(tailor.at))
              /\ tailor.at = 0 => units = break_units(text, vec)

C7_Witness ==
    /\ stage = "units" /\ ClearsBreak /\ tailor.at = 1 /\ Len(units) = 2
    /\ kind = "word"

\* C8, as claimed: for a non-empty text the finalised decision at position 0
\* is Break in every engine.
C8_Original == (HasVector /\ text # <<>>) => vec[1] = 1

\* C8, amended: for a non-empty text the finalised decision at position 0
\* is Break in the grapheme, word and sentence engines and DoNotBreak (LB2)
\* in the line-break engine.
C8_Position0 ==
    (HasVector /\ text # <<>>) =>
        vec[1] = (IF kind = "line_break" THEN 0 ELSE 1)

C8_Witness ==
    /\ stage = "breakables" /\ kind = "line_break" /\ Len(text) = MaxLen
    /\ vec[1] = 0 /\ \E i \in 2..Len(vec) : vec[i] = 1

\* C9: for a non-empty text and either value of legacy, the line-break
\* vector has 0 at position 0 and line_break_boundaries ends with len(s).
C9_LB2_LB3 ==
    (kind = "line_break" /\ text # <<>>) =>
        /\ HasVector => vec[1] = 0
        /\ (HasBoundaries /\ ~tailor.given) =>
              bnds # <<>> /\ bnds[Len(bnds)] = Len(text)

C9_Witness ==
    /\ stage = "boundaries" /\ kind = "line_break" /\ legacy /\ ~tailor.given
    /\ Len(text) = 2 /\ bnds = <<1, 2>>

\* C10: with legacy set a code point of class AI is treated as ID, so two
\* adjacent AI code points are two line-break units; without legacy they
\* are one unit.
C10_Legacy ==
    (stage = "units" /\ kind = "line_break" /\ ~tailor.given
       /\ text = <<"U+00A7", "U+00A7">>) =>
        Len(units) = (IF legacy THEN 2 ELSE 1)

(***************************************************************************)
(* Properties of the engines run one loop iteration at a time.             *)
(***************************************************************************)
Running == phase \notin {"idle", "call"}

\* the decision the cursor holds at position i (1-based)
Held(i) == Decision(IF kind = "word" THEN "wb1" ELSE phase,
                    cursor.breakables[i])

\* C11: in every engine, a position on which a rule has called break_here
\* or do_not_break_here keeps the value of the first call: no later rule
\* and no later pass changes it to the other value.  This holds for the
\* word engine too, whose Runner writes without looking at the vector.
C11_WriteOnce ==
    Running => \A i \in DOMAIN first : first[i] # None => Held(i) = first[i]

\* a later rule calls for the other value on a decided position, and the
\* position keeps its value
C11_Witness ==
    /\ Running
    /\ \E i \in DOMAIN first :
          /\ first[i] # None /\ tried[i] # None /\ tried[i] # first[i]
          /\ Held(i) = first[i]

\* C12: the finalisation replaces every position no rule decided by the
\* default of the engine and leaves every decided position as it is; after
\* it no position is undecided.  The default is Break for the grapheme,
\* word and line-break engines, DoNotBreak for the sentence engine.
C12_SetDefault ==
    [][Return =>
        \A i \in 1..Len(text) :
            /\ Held(i)' \in {Break, DoNotBreak}
            /\ (Held(i) = None \/ first[i] = None) =>
                   Held(i)' = (IF kind = "sentence" THEN DoNotBreak ELSE Break)
            /\ Held(i) # None => Held(i)' = Held(i)
            /\ vec'[i] = BreakableValue(Held(i)')]_vars

\* a sentence vector returned with a position the rules decided as Break
\* and a position left to the default DoNotBreak
C12_Witness ==
    /\ phase = "done" /\ kind = "sentence"
    /\ \E i, j \in 1..Len(text) :
          /\ first[i] = None /\ vec[i] = 0
          /\ first[j] = Break /\ vec[j] = 1

\* the code point is a regional indicator for the engine of kind K
IsRI(K, ch) ==
    IF K = "grapheme_cluster"
    THEN grapheme_cluster_break(ch) = "Regional_Indicator"
    ELSE IF K = "word" THEN word_break(ch) = "Regional_Indicator"
    ELSE resolve_lb1_linebreak(ch) = "RI"

\* the last index before i whose code point is not in ign, 0 if none
RECURSIVE Before(_, _, _)
Before(s, i, ign) ==
    IF i <= 1 THEN 0
    ELSE IF s[i - 1] \in ign THEN Before(s, i - 1, ign)
    ELSE i - 1

\* the rank of the regional indicator at index i in its maximal run, the
\* code points of ign being ignored
RECURSIVE RIRank(_, _, _, _)
RIRank(K, s, i, ign) ==
    IF Before(s, i, ign) = 0 \/ ~IsRI(K, s[Before(s, i, ign)]) THEN 1
    ELSE 1 + RIRank(K, s, Before(s, i, ign), ign)

\* the code points the pairing of kind K looks through: as the claim has it
\* (the word engine only), and as the engines have it
IgnoredAsStated(K) ==
    IF K = "word"
    THEN {ch \in CodePoints : word_break(ch) \in {"Extend", "Format", "ZWJ"}}
    ELSE {}

IgnoredInPairing(K) ==
    IF K = "line_break"
    THEN {ch \in CodePoints : resolve_lb1_linebreak(ch) \in {"CM", "ZWJ"}}
    ELSE IgnoredAsStated(K)

\* the code points after which the engine of kind K never breaks, whatever
\* follows (LB8a: ZWJ x)
Glue(K) ==
    IF K = "line_break"
    THEN {ch \in CodePoints : resolve_lb1_linebreak(ch) = "ZWJ"}
    ELSE {}

\* the vector pairs the regional indicators of every maximal run: no break
\* before an indicator of even rank, a break before one of odd rank (after
\* the first) unless it stands right after a code point of glue
Paired(K, s, v, ign, glue) ==
    \A i \in 2..Len(s) :
        (IsRI(K, s[i]) /\ RIRank(K, s, i, ign) >= 2) =>
            IF RIRank(K, s, i, ign) % 2 = 0 THEN v[i] = 0
            ELSE s[i - 1] \in glue \/ v[i] = 1

\* C13 as stated: in every maximal run of consecutive regional indicators
\* (for the word engine, consecutive after ignoring Extend/Format/ZWJ) the
\* decision before the (k+1)-th indicator is DoNotBreak for odd k and Break
\* for even k.
C13_Original ==
    phase = "done" => Paired(kind, text, vec, IgnoredAsStated(kind), {})

\* C13: as above, where the line-break engine too counts the indicators
\* of a run after ignoring the CM and ZWJ code points between them, and
\* where in the line-break engine the decision for even k is Break unless
\* the indicator stands right after a ZWJ.
C13_Pairing ==
    phase = "done" =>
        Paired(kind, text, vec, IgnoredInPairing(kind), Glue(kind))

\* four indicators in a row, returned as two units of two
C13_Witness ==
    /\ phase = "done" /\ Len(text) = 4
    /\ \A i \in 1..4 : IsRI(kind, text[i])
    /\ vec = <<1, 0, 1, 0>>

\* C14: in the grapheme vector, at every position i >= 1: CR before LF is
\* DoNotBreak; otherwise Control, CR or LF on either side is Break, also
\* before Extend, ZWJ or SpacingMark and after Prepend; only otherwise is
\* the position DoNotBreak before Extend, ZWJ, SpacingMark and after
\* Prepend.
C14_Precedence ==
    (phase = "done" /\ kind = "grapheme_cluster") =>
        \A i \in 2..Len(text) :
            IF grapheme_cluster_break(text[i - 1]) = "CR"
               /\ grapheme_cluster_break(text[i]) = "LF"
            THEN vec[i] = 0
            ELSE IF \/ grapheme_cluster_break(text[i - 1])
                           \in {"Control", "CR", "LF"}
                    \/ grapheme_cluster_break(text[i])
                           \in {"Control", "CR", "LF"}
            THEN vec[i] = 1
            ELSE (\/ grapheme_cluster_break(text[i])
                         \in {"Extend", "ZWJ", "SpacingMark"}
                  \/ grapheme_cluster_break(text[i - 1]) = "Prepend")
                     => vec[i] = 0

\* a Control between a Prepend and an Extend breaks on both sides
C14_Witness ==
    /\ phase = "done" /\ kind = "grapheme_cluster"
    /\ \E i \in 2..(Len(text) - 1) :
          /\ grapheme_cluster_break(text[i - 1]) = "Prepend"
          /\ grapheme_cluster_break(text[i]) = "Control"
          /\ grapheme_cluster_break(text[i + 1]) = "Extend"
          /\ vec[i] = 1 /\ vec[i + 1] = 1

\* the Indic_Conjunct_Break column of the property table, of which the
\* accessor indic_conjunct_break returns the truth value
InCBColumn(ch) ==
    IF ch = "U+0915" THEN "Consonant"
    ELSE IF ch = "U+094D" THEN "Linker"
    ELSE IF ch \in {"U+0308", "U+200D"} THEN "Extend"
    ELSE "None"

\* the last index before i whose InCB is neither Extend nor Linker, 0 if none
RECURSIVE InCBBase(_, _)
InCBBase(s, i) ==
    IF i <= 1 THEN 0
    ELSE IF InCBColumn(s[i - 1]) \in {"Extend", "Linker"}
    THEN InCBBase(s, i - 1)
    ELSE i - 1

\* GB9c applies before index i: a consonant, reached from a consonant over
\* Extend and Linker code points, at least one of them a Linker
GB9cApplies(s, i) ==
    /\ InCBColumn(s[i]) = "Consonant"
    /\ InCBBase(s, i) > 0
    /\ InCBColumn(s[InCBBase(s, i)]) = "Consonant"
    /\ \E k \in (InCBBase(s, i) + 1)..(i - 1) : InCBColumn(s[k]) = "Linker"

\* C15: the grapheme vector has no break before a consonant that GB9c
\* applies to; in particular consonant, U+094D, consonant is one grapheme
\* cluster.
C15_GB9c ==
    (phase = "done" /\ kind = "grapheme_cluster") =>
        \A i \in 2..Len(text) : GB9cApplies(text, i) => vec[i] = 0

\* the last index before i whose code point is not Extend, 0 if none
RECURSIVE GB11Base(_, _)
GB11Base(s, i) ==
    IF i <= 1 THEN 0
    ELSE IF grapheme_cluster_break(s[i - 1]) = "Extend"
    THEN GB11Base(s, i - 1)
    ELSE i - 1

\* GB11 applies before index i: the code point before is ZWJ and, going
\* backward from the ZWJ over Extend code points, a pictograph is reached
GB11Applies(s, i) ==
    /\ extended_pictographic(s[i])
    /\ grapheme_cluster_break(s[i - 1]) = "ZWJ"
    /\ GB11Base(s, i - 1) > 0
    /\ extended_pictographic(s[GB11Base(s, i - 1)])

\* C16: before a pictograph the grapheme vector has no break when GB11
\* applies; when it does not apply (the code point before is not ZWJ, or
\* the base reached is missing or no pictograph) the break is not forbidden:
\* the vector has a break there unless the code point before is a Prepend.
C16_GB11 ==
    (phase = "done" /\ kind = "grapheme_cluster") =>
        \A i \in 2..Len(text) :
            extended_pictographic(text[i]) =>
                IF GB11Applies(text, i) THEN vec[i] = 0
                ELSE grapheme_cluster_break(text[i - 1]) = "Prepend"
                     \/ vec[i] = 1

\* pictograph, Extend, ZWJ, pictograph: one cluster
C16_Witness ==
    /\ phase = "done" /\ kind = "grapheme_cluster" /\ Len(text) = 4
    /\ extended_pictographic(text[1])
    /\ grapheme_cluster_break(text[2]) = "Extend"
    /\ grapheme_cluster_break(text[3]) = "ZWJ"
    /\ extended_pictographic(text[4])
    /\ vec = <<1, 0, 0, 0>>

\* the code points the sentence rules of pass 2 look through
SBIgnored ==
    {ch \in CodePoints : sentence_break(ch) \in {"Extend", "Format"}}

\* from index j (0: none) backward over the code points of class cls,
\* Extend and Format being ignored: the index reached, 0 if none
RECURSIVE SBOver(_, _, _)
SBOver(s, j, cls) ==
    IF j > 0 /\ sentence_break(s[j]) = cls
    THEN SBOver(s, Before(s, j, SBIgnored), cls)
    ELSE j

\* ignoring Extend and Format, index i is immediately preceded by an STerm
\* or ATerm followed by zero or more Close and then zero or more Sp
AfterTerminator(s, i) ==
    /\ SBOver(s, SBOver(s, Before(s, i, SBIgnored), "Sp"), "Close") > 0
    /\ sentence_break(
           s[SBOver(s, SBOver(s, Before(s, i, SBIgnored), "Sp"), "Close")])
           \in SATermTuple

\* C17: the sentence vector has 1 at a position i > 0 only if the code
\* point at i-1 is Sep, CR or LF or, ignoring Extend and Format, position i
\* is immediately preceded by an STerm or ATerm, zero or more Close and
\* zero or more Sp; a text with no STerm, ATerm, Sep, CR or LF has no
\* boundary but 0 and len(s).
C17_OnlyAfterTerminator ==
    (phase = "done" /\ kind = "sentence") =>
        /\ \A i \in 2..Len(text) :
              vec[i] = 1 =>
                  \/ sentence_break(text[i - 1]) \in ParaSepTuple
                  \/ AfterTerminator(text, i)
        /\ (\A i \in 1..Len(text) :
               sentence_break(text[i]) \notin (ParaSepTuple \cup SATermTuple))
               => boundaries(vec) = (IF text = <<>> THEN <<>>
                                     ELSE <<0, Len(text)>>)

\* a break after ATerm, Close, Sp before an upper-case letter
C17_Witness ==
    /\ phase = "done" /\ kind = "sentence" /\ Len(text) = 4
    /\ sentence_break(text[1]) = "ATerm"
    /\ sentence_break(text[2]) = "Close"
    /\ sentence_break(text[3]) = "Sp"
    /\ sentence_break(text[4]) = "Upper"
    /\ vec = <<1, 0, 0, 1>>

\* C18: in the sentence vector, at every position i >= 1: CR before LF is
\* DoNotBreak; otherwise a position after Sep, CR or LF is Break, also
\* before Extend or Format and also where a rule of pass 2 matches.
C18_Pass1Wins ==
    (phase = "done" /\ kind = "sentence") =>
        \A i \in 2..Len(text) :
            IF sentence_break(text[i - 1]) = "CR"
               /\ sentence_break(text[i]) = "LF"
            THEN vec[i] = 0
            ELSE sentence_break(text[i - 1]) \in ParaSepTuple => vec[i] = 1

\* pass 2 calls do_not_break_here on a position after Sep, CR or LF that
\* pass 1 decided as Break, and the position stays Break
C18_Witness ==
    /\ phase = "sb2" /\ kind = "sentence"
    /\ \E i \in 2..Len(text) :
          /\ sentence_break(text[i - 1]) \in ParaSepTuple
          /\ first[i] = Break /\ tried[i] = DoNotBreak /\ Held(i) = Break

\* C19: in the word engine, at every position i >= 1: between CR and LF
\* the decision is DoNotBreak; otherwise Newline, CR or LF on either side
\* is Break, also before Extend, Format or ZWJ; otherwise a position before
\* Extend, Format or ZWJ is DoNotBreak; pass 2 and the regional-indicator
\* pass leave these decisions as pass 1 made them.
C19_Pass1 ==
    (kind = "word" /\ phase \in {"wb2", "wb15", "final", "done"}) =>
        \A i \in 2..Len(text) :
            IF word_break(text[i - 1]) = "CR" /\ word_break(text[i]) = "LF"
            THEN Held(i) = DoNotBreak
            ELSE IF \/ word_break(text[i - 1]) \in {"Newline", "CR", "LF"}
                    \/ word_break(text[i]) \in {"Newline", "CR", "LF"}
            THEN Held(i) = Break
            ELSE word_break(text[i]) \in {"Extend", "Format", "ZWJ"}
                     => Held(i) = DoNotBreak

\* Newline, CR or LF followed by two of Extend / Format / ZWJ: the vector
\* returned has a break before the first and none before the second
C19_Witness ==
    /\ kind = "word" /\ phase = "done"
    /\ \E i \in 2..(Len(text) - 1) :
          /\ word_break(text[i - 1]) \in {"Newline", "CR", "LF"}
          /\ word_break(text[i]) \in {"Extend", "Format", "ZWJ"}
          /\ word_break(text[i + 1]) \in {"Extend", "Format", "ZWJ"}
          /\ vec[i] = 1 /\ vec[i + 1] = 0

\* the code points the second loop of the word engine skips
WBIgnored ==
    {ch \in CodePoints : word_break(ch) \in {"Extend", "Format", "ZWJ"}}

\* the first index after i whose code point is not in ign, 0 if none
RECURSIVE After(_, _, _)
After(s, i, ign) ==
    IF i >= Len(s) THEN 0
    ELSE IF s[i + 1] \in ign THEN After(s, i + 1, ign)
    ELSE i + 1

IsAHLetter(s, i) == i > 0 /\ word_break(s[i]) \in AHLetterTuple

\* the last index of the code points of ign that follow index i
LastAttached(s, i, ign) ==
    IF After(s, i, ign) = 0 THEN Len(s) ELSE After(s, i, ign) - 1

\* C20: for AHLetter, M, AHLetter with M in {MidLetter, MidNumLet,
\* Single_Quote} and any number of Extend/Format/ZWJ after each of the
\* three, the word vector has no break inside the sequence; when M follows
\* an AHLetter and is not followed, ignoring Extend/Format/ZWJ, by an
\* AHLetter, the vector has a break before M unless WB7a (Hebrew_Letter x
\* Single_Quote) forbids it.
C20_WB6_WB7 ==
    (kind = "word" /\ phase = "done") =>
        \A j \in 2..Len(text) :
            (/\ word_break(text[j]) \in {"MidLetter"} \cup MidNumLetQTuple
             /\ IsAHLetter(text, Before(text, j, WBIgnored))) =>
                IF IsAHLetter(text, After(text, j, WBIgnored))
                THEN \A p \in (Before(text, j, WBIgnored) + 1)..
                              LastAttached(text, After(text, j, WBIgnored),
                                           WBIgnored) : vec[p] = 0
                ELSE \/ vec[j] = 1
                     \/ /\ word_break(text[Before(text, j, WBIgnored)])
                               = "Hebrew_Letter"
                        /\ word_break(text[j]) = "Single_Quote"

\* letter, Extend, M, Extend, letter: one word
C20_Witness ==
    /\ kind = "word" /\ phase = "done" /\ Len(text) = 5
    /\ IsAHLetter(text, 1) /\ text[2] \in WBIgnored
    /\ word_break(text[3]) \in {"MidLetter"} \cup MidNumLetQTuple
    /\ text[4] \in WBIgnored /\ IsAHLetter(text, 5)
    /\ vec = <<1, 0, 0, 0, 0>>

\* C21: in the line-break engine, at every position i >= 1, with the
\* classes LB1 resolves: after BK the decision is Break; else between CR
\* and LF DoNotBreak; else after CR, LF or NL Break; else before BK, CR, LF,
\* NL, SP or ZW DoNotBreak; the passes LB9 .. LB30b leave these decisions
\* as the first loop made them.
C21_Mandatory ==
    (kind = "line_break"
       /\ phase \in {"lb9", "lb10", "lb3", "lb30a", "lb30b", "final", "done"})
    => \A i \in 2..Len(text) :
          IF resolve_lb1_linebreak(text[i - 1]) = "BK"
          THEN Held(i) = Break
          ELSE IF /\ resolve_lb1_linebreak(text[i - 1]) = "CR"
                  /\ resolve_lb1_linebreak(text[i]) = "LF"
          THEN Held(i) = DoNotBreak
          ELSE IF resolve_lb1_linebreak(text[i - 1]) \in {"CR", "LF", "NL"}
          THEN Held(i) = Break
          ELSE resolve_lb1_linebreak(text[i])
                   \in {"BK", "CR", "LF", "NL", "SP", "ZW"}
                   => Held(i) = DoNotBreak

\* a later rule calls for a break on a position LB6 / LB7 decided as
\* DoNotBreak, and the position stays DoNotBreak
C21_Witness ==
    /\ kind = "line_break" /\ phase \in {"lb3", "lb30b"}
    /\ \E i \in 2..Len(text) :
          /\ resolve_lb1_linebreak(text[i]) \in {"BK", "CR", "LF", "NL", "SP", "ZW"}
          /\ first[i] = DoNotBreak /\ tried[i] = Break /\ Held(i) = DoNotBreak

\* the code points of class CM or ZWJ
LBMarks == IgnoredInPairing("line_break")

\* the mark at index i is attached: going backward over CM / ZWJ a base is
\* reached that is not BK, CR, LF, NL, SP or ZW
LBAttached(s, i) ==
    /\ s[i] \in LBMarks
    /\ Before(s, i, LBMarks) > 0
    /\ resolve_lb1_linebreak(s[Before(s, i, LBMarks)])
           \notin {"BK", "CR", "LF", "NL", "SP", "ZW"}

\* the text from index i on as the later rules are to see it: attached
\* marks left out, every other mark replaced by a letter of class AL
RECURSIVE LBNormal(_, _)
LBNormal(s, i) ==
    IF i > Len(s) THEN <<>>
    ELSE IF LBAttached(s, i) THEN LBNormal(s, i + 1)
    ELSE <<IF s[i] \in LBMarks THEN "A" ELSE s[i]>> \o LBNormal(s, i + 1)

\* the index in LBNormal(s, 1) of the code point at index i of s
LBKept(s, i) == Cardinality({j \in 1..i : ~LBAttached(s, j)})

\* C22: the line-break vector has no break before an attached CM or ZWJ;
\* at every other position, unless it stands right after a ZWJ (which the
\* earlier rule LB8a decides), the decision is the one the engine makes on
\* the text without the attached marks and with every other CM or ZWJ
\* replaced by a letter of class AL.
C22_LB9_LB10 ==
    (kind = "line_break" /\ phase = "done") =>
        \A i \in 1..Len(text) :
            IF LBAttached(text, i) THEN vec[i] = 0
            ELSE IF i >= 2 /\ resolve_lb1_linebreak(text[i - 1]) = "ZWJ"
            THEN vec[i] = 0
            ELSE vec[i] = line_break_breakables(LBNormal(text, 1), FALSE)
                              [LBKept(text, i)]

\* letter, CM, SP, CM: no break before the attached mark, and a break
\* before the mark after the space, as before a letter
C22_Witness ==
    /\ kind = "line_break" /\ phase = "done" /\ Len(text) = 4
    /\ resolve_lb1_linebreak(text[1]) = "AL"
    /\ resolve_lb1_linebreak(text[2]) = "CM"
    /\ resolve_lb1_linebreak(text[3]) = "SP"
    /\ resolve_lb1_linebreak(text[4]) = "CM"
    /\ vec = <<0, 0, 0, 1>>

(***************************************************************************)
(* tools/build_db_lookups.py and db.py: the two-stage property table.      *)
(* A table t is a sequence of row indices, t[cp + 1] for code point cp.    *)
(***************************************************************************)

\* the longest table handed to splitbins
MaxTable == 5

\* sys.maxsize, cut to the largest 32-bit integer
maxsize == 2147483647

\* what an out-of-range subscript yields instead of a value
IndexError == -1

\* the row indices a table holds; 256 is the first one a byte cannot hold
RowIndices == {0, 1, 2, 256}

\* db_lookups.values: the unique records, row 0 the all-empty one
db_values ==
    << [gcb |-> "", wb |-> "", sb |-> "", lb |-> ""],
       [gcb |-> "Extend", wb |-> "Extend", sb |-> "Extend", lb |-> "CM"],
       [gcb |-> "", wb |-> "ALetter", sb |-> "Upper", lb |-> ""] >>

RECURSIVE MaxOf(_, _)
\* max(data), from position k on
MaxOf(data, k) ==
    IF k > Len(data) THEN 0
    ELSE IF data[k] > MaxOf(data, k + 1) THEN data[k] ELSE MaxOf(data, k + 1)

\* getsize(data)
getsize(data) ==
    IF MaxOf(data, 1) < 256 THEN 1
    ELSE IF MaxOf(data, 1) < 65536 THEN 2
    ELSE 4

RECURSIVE ShiftsOf(_)
\* the loop "while n >> 1: n >>= 1; maxshift += 1"
ShiftsOf(n) == IF n \div 2 = 0 THEN 0 ELSE 1 + ShiftsOf(n \div 2)

\* maxshift, for a table of len(t) = n + 1
MaxShift(n) == IF n > 0 THEN ShiftsOf(n) ELSE 0

\* mutant: the slice t[i:i+size+1]
Bin_overlap(t, i, size) ==
    [k \in 1..((IF i + size + 1 < Len(t) THEN i + size + 1 ELSE Len(t)) - i)
        |-> t[i + k]]

\* bin = t[i:i+size]
Bin(t, i, size) ==
    [k \in 1..((IF i + size < Len(t) THEN i + size ELSE Len(t)) - i)
        |-> t[i + k]]

\* bincache.get(bin): the index the bin was stored at, or None
CacheGet(bincache, bin) ==
    IF \E p \in bincache : p[1] = bin
    THEN (CHOOSE p \in bincache : p[1] = bin)[2]
    ELSE -1

RECURSIVE Bins_unshifted(_, _, _, _)
\* mutant: t1.append(index)
Bins_unshifted(t, shift, i, acc) ==
    IF i >= Len(t) THEN acc
    ELSE IF CacheGet(acc.bincache, Bin(t, i, 2 ^ shift)) = -1
    THEN Bins_unshifted(t, shift, i + 2 ^ shift,
              [t1 |-> Append(acc.t1, Len(acc.t2)),
               t2 |-> acc.t2 \o Bin(t, i, 2 ^ shift),
               bincache |-> acc.bincache \cup
                            {<<Bin(t, i, 2 ^ shift), Len(acc.t2)>>}])
    ELSE Bins_unshifted(t, shift, i + 2 ^ shift,
              [acc EXCEPT !.t1 =
                  Append(@, CacheGet(acc.bincache, Bin(t, i, 2 ^ shift)))])

RECURSIVE Bins(_, _, _, _)
\* the loop "for i in range(0, len(t), size)" of one shift
Bins(t, shift, i, acc) ==
    IF i >= Len(t) THEN acc
    ELSE IF CacheGet(acc.bincache, Bin(t, i, 2 ^ shift)) = -1
    THEN Bins(t, shift, i + 2 ^ shift,
              [t1 |-> Append(acc.t1, Len(acc.t2) \div (2 ^ shift)),
               t2 |-> acc.t2 \o Bin(t, i, 2 ^ shift),
               bincache |-> acc.bincache \cup
                            {<<Bin(t, i, 2 ^ shift), Len(acc.t2)>>}])
    ELSE Bins(t, shift, i + 2 ^ shift,
              [acc EXCEPT !.t1 =
                  Append(@, CacheGet(acc.bincache, Bin(t, i, 2 ^ shift))
                            \div (2 ^ shift))])

\* t1 and t2 of one shift
Split(t, shift) == Bins(t, shift, 0, [t1 |-> <<>>, t2 |-> <<>>, bincache |-> {}])

\* b = len(t1) * getsize(t1) + len(t2) * getsize(t2)
Cost(c) == Len(c.t1) * getsize(c.t1) + Len(c.t2) * getsize(c.t2)

RECURSIVE BestFrom(_, _, _, _)
\* the loop "for shift in range(maxshift + 1)": the first cheapest shift
BestFrom(t, shift, best, bytes) ==
    IF shift > MaxShift(Len(t) - 1) THEN best
    ELSE IF Cost(Split(t, shift)) < bytes
    THEN BestFrom(t, shift + 1,
                  [t1 |-> Split(t, shift).t1, t2 |-> Split(t, shift).t2,
                   shift |-> shift],
                  Cost(Split(t, shift)))
    ELSE BestFrom(t, shift + 1, best, bytes)

\* splitbins(t), for a table that is not empty
splitbins(t) == BestFrom(t, 0, [t1 |-> <<>>, t2 |-> <<>>, shift |-> 0], maxsize)

\* array.array('B', data) takes the data: every element is below 256
Fits(data) == \A k \in 1..Len(data) : data[k] < 256

\* main(), from splitbins to the emitted module: index1 and index2 are the
\* byte strings written, raised tells that array.array raised OverflowError
Emitted(t) ==
    [t1 |-> splitbins(t).t1,
     t2 |-> splitbins(t).t2,
     shift |-> splitbins(t).shift,
     raised |-> ~(Fits(splitbins(t).t1) /\ Fits(splitbins(t).t2)),
     index1 |-> IF Fits(splitbins(t).t1) /\ Fits(splitbins(t).t2)
                THEN splitbins(t).t1 ELSE <<>>,
     index2 |-> IF Fits(splitbins(t).t1) /\ Fits(splitbins(t).t2)
                THEN splitbins(t).t2 ELSE <<>>]

\* seq[k] of Python, k counted from 0
Item(seq, k) == IF k \in 0..(Len(seq) - 1) THEN seq[k + 1] ELSE IndexError

\* mutant: the guard "maxunicode < cp" dropped
_find_break_unguarded(tb, cp, maxunicode) ==
    IF Item(tb.index1, cp \div (2 ^ tb.shift)) = IndexError THEN IndexError
    ELSE Item(tb.index2,
              Item(tb.index1, cp \div (2 ^ tb.shift)) * (2 ^ tb.shift)
              + (cp % (2 ^ tb.shift)))

\* _find_break(ch), cp = ord(ch)
_find_break(tb, cp, maxunicode) ==
    IF maxunicode < cp THEN 0
    ELSE IF Item(tb.index1, cp \div (2 ^ tb.shift)) = IndexError THEN IndexError
    ELSE Item(tb.index2,
              Item(tb.index1, cp \div (2 ^ tb.shift)) * (2 ^ tb.shift)
              + (cp % (2 ^ tb.shift)))

\* values[row][column] or default
Accessor(row, column, default) ==
    IF row \notin 0..(Len(db_values) - 1) THEN "IndexError"
    ELSE IF db_values[row + 1][column] = "" THEN default
    ELSE db_values[row + 1][column]

\* the tables splitbins is given
Tables == UNION {[1..n -> RowIndices] : n \in 1..MaxTable}

BuilderInit ==
    /\ kind = "table"
    /\ text = <<>>
    /\ legacy = FALSE
    /\ tailor = NoTailor
    /\ stage = "build"
    /\ vec = <<>>
    /\ bnds = <<>>
    /\ units = <<>>
    /\ reunits = <<>>
    /\ phase = "idle"
    /\ cursor = Runner(<<>>)
    /\ incb = <<>>
    /\ table = <<>>
    /\ first = <<>>
    /\ tried = <<>>
    /\ indices \in Tables
    /\ tables = <<>>
    /\ found = <<>>
    /\ probe = <<>>

\* main(): index1, index2, shift = splitbins(indices), then the two arrays
Build ==
    /\ stage = "build"
    /\ tables' = Emitted(indices)
    /\ stage' = "built"
    /\ UNCHANGED <<text, kind, legacy, tailor, vec, bnds, units, reunits,
                   engine, indices, found, probe>>

\* one property lookup in the emitted tables, sys.maxunicode = len(t) - 1
Lookup ==
    /\ stage \in {"built", "looked"}
    /\ ~tables.raised
    /\ \E cp \in 0..Len(indices) :
          found' = [cp |-> cp,
                    row |-> _find_break(tables, cp, Len(indices) - 1),
                    gcb |-> Accessor(_find_break(tables, cp, Len(indices) - 1),
                                     "gcb", "Other"),
                    wb |-> Accessor(_find_break(tables, cp, Len(indices) - 1),
                                    "wb", "Other"),
                    sb |-> Accessor(_find_break(tables, cp, Len(indices) - 1),
                                    "sb", "Other"),
                    lb |-> Accessor(_find_break(tables, cp, Len(indices) - 1),
                                    "lb", "XX")]
    /\ stage' = "looked"
    /\ UNCHANGED <<text, kind, legacy, tailor, vec, bnds, units, reunits,
                   engine, indices, tables, probe>>

BuilderNext == Build \/ Lookup

BuilderSpec == BuilderInit /\ [][BuilderNext]_vars

\* position of code point i in t2, as _find_break computes it
Packed(tb, i) ==
    Item(tb.t1, i \div (2 ^ tb.shift)) * (2 ^ tb.shift) + (i % (2 ^ tb.shift))

\* C23: a lookup never raises and returns a row of the row table; above
\* sys.maxunicode it returns row 0, inside the table the row the table holds
\* for the code point; every accessor returns the value of the row, and the
\* default ('Other', for Line_Break 'XX') when that value is empty.
C23_LookupTotal ==
    stage = "looked" =>
        /\ found.row \in 0..(Len(db_values) - 1)
        /\ found.cp > Len(indices) - 1 => found.row = 0
        /\ found.cp <= Len(indices) - 1 => found.row = indices[found.cp + 1]
        /\ \A c \in {"gcb", "wb", "sb", "lb"} :
              found[c] = IF db_values[found.row + 1][c] # ""
                         THEN db_values[found.row + 1][c]
                         ELSE IF c = "lb" THEN "XX" ELSE "Other"

\* a code point above the maximum, looked up in tables with a real shift
C23_Witness ==
    /\ stage = "looked"
    /\ found.cp = Len(indices)
    /\ found.row = 0
    /\ found.lb = "XX"
    /\ tables.shift > 0
    /\ indices[Len(indices)] = 1

\* C24: for the triple (t1, t2, shift) of splitbins(t) and every index i of
\* t, (t1[i >> shift] << shift) + (i & mask) is an index of t2 and t2 holds
\* t[i] there, also when the last bin is shorter than 2**shift.
C24_RoundTrip ==
    stage # "build" =>
        \A i \in 0..(Len(indices) - 1) :
            /\ i \div (2 ^ tables.shift) \in 0..(Len(tables.t1) - 1)
            /\ Packed(tables, i) \in 0..(Len(tables.t2) - 1)
            /\ tables.t2[Packed(tables, i) + 1] = indices[i + 1]

\* a short last bin behind a bin that was found in the cache
C24_Witness ==
    /\ stage = "built"
    /\ tables.shift = 1
    /\ Len(indices) = 5
    /\ Len(tables.t2) = 3
    /\ tables.t1 = <<0, 0, 1>>

\* C25, as stated: len(stage2) is a multiple of 2**shift.
C25_Original ==
    stage # "build" => Len(tables.t2) % (2 ^ tables.shift) = 0

\* C25: len(stage2) is congruent to len(t) modulo 2**shift: it is a multiple
\* of 2**shift exactly when the length of the input table is one.
C25_Congruent ==
    stage # "build" =>
        Len(tables.t2) % (2 ^ tables.shift) = Len(indices) % (2 ^ tables.shift)

\* three different rows: the cheapest split has shift 1 and a bin of one
C25_Witness ==
    /\ stage = "built"
    /\ indices = <<0, 1, 2>>
    /\ tables.shift = 1
    /\ tables.t2 = <<0, 1, 2>>

\* C26, as stated: both stage arrays are emitted whole, no element is
\* truncated or rejected, whatever the largest element is.
C26_Emitted ==
    stage # "build" =>
        /\ ~tables.raised
        /\ tables.index1 = tables.t1
        /\ tables.index2 = tables.t2

(***************************************************************************)
(* breaking.py: a Run used on its own, one call at a time.                 *)
(***************************************************************************)

\* the longest text under a bare cursor
MaxCursorLen == 3

\* the properties of the text under a bare cursor
CursorValues == {"A", "B", "C"}

\* faulty variant of the lookaround that works on the cursor itself
Looked_in_place(self, values, variable, backward, noskip) ==
    [self |-> is_continuing(self, values, variable, backward, noskip),
     run |-> is_continuing(self, values, variable, backward, noskip)]

\* the two objects after self.is_continuing(...): run = copy(self) is the
\* one that is walked and returned, self keeps its own position and flag
Looked(self, values, variable, backward, noskip) ==
    [self |-> self,
     run |-> is_continuing(self, values, variable, backward, noskip)]

\* what is recorded of a call: the cursor before, the cursor returned (the
\* cursor itself when the call returns none) and the value returned
Called(op, self, run, returned, offset, noskip, values, variable, backward) ==
    [op |-> op, before |-> self, run |-> run, returned |-> returned,
     offset |-> offset, noskip |-> noskip, values |-> values,
     variable |-> variable, backward |-> backward]

CursorInit ==
    /\ kind = "cursor"
    /\ text \in UNION {[1..n -> CursorValues] : n \in 1..MaxCursorLen}
    /\ legacy = FALSE
    /\ tailor = NoTailor
    /\ stage = "cursor"
    /\ vec = <<>>
    /\ bnds = <<>>
    /\ units = <<>>
    /\ reunits = <<>>
    /\ phase = "idle"
    /\ cursor = Run(text, [x \in CursorValues |-> x])
    /\ incb = <<>>
    /\ table = <<>>
    /\ first = <<>>
    /\ tried = <<>>
    /\ indices = <<>>
    /\ tables = <<>>
    /\ found = <<>>
    /\ probe = Called("Run", cursor, cursor, None, 0, FALSE, {}, FALSE, FALSE)

\* run.walk(offset, noskip)
CallWalk ==
    \E offset \in -2..2, noskip \in BOOLEAN :
        /\ stage = "cursor"
        /\ cursor' = walk(cursor, offset, noskip)
        /\ probe' = Called("walk", cursor, cursor', cursor'.condition,
                           offset, noskip, {}, FALSE, FALSE)
        /\ UNCHANGED <<text, kind, legacy, vec, phase, incb, table, first,
                       tried, client, indices, tables, found>>

\* run.head()
CallHead ==
    /\ stage = "cursor"
    /\ cursor' = head(cursor)
    /\ probe' = Called("head", cursor, cursor', None, 0, FALSE, {}, FALSE, FALSE)
    /\ UNCHANGED <<text, kind, legacy, vec, phase, incb, table, first,
                   tried, client, indices, tables, found>>

\* run.skip(values)
CallSkip ==
    \E values \in {{}, {"B"}} :
        /\ stage = "cursor"
        /\ cursor' = skip(cursor, values)
        /\ probe' = Called("skip", cursor, cursor', None, 0, FALSE, values,
                           FALSE, FALSE)
        /\ UNCHANGED <<text, kind, legacy, vec, phase, incb, table, first,
                       tried, client, indices, tables, found>>

\* run.value(offset, noskip); curr, prev and next are value(0), value(-1)
\* and value(1)
CallValue ==
    \E offset \in -1..1, noskip \in BOOLEAN :
        /\ stage = "cursor"
        /\ cursor' = cursor
        /\ probe' = Called("value", cursor, cursor',
                           value(cursor, offset, noskip),
                           offset, noskip, {}, FALSE, FALSE)
        /\ UNCHANGED <<text, kind, legacy, vec, phase, incb, table, first,
                       tried, client, indices, tables, found>>

\* run.is_continuing(values, variable, backward, noskip); is_following is
\* the call with backward=True, is_leading the call with backward=False
CallLook ==
    \E values \in {{"A"}, {"A", "C"}}, variable \in BOOLEAN,
       backward \in BOOLEAN, noskip \in BOOLEAN :
        /\ stage = "cursor"
        /\ cursor' = Looked(cursor, values, variable, backward, noskip).self
        /\ probe' = Called("is_continuing", cursor,
                           Looked(cursor, values, variable, backward, noskip).run,
                           None, 0, noskip, values, variable, backward)
        /\ UNCHANGED <<text, kind, legacy, vec, phase, incb, table, first,
                       tried, client, indices, tables, found>>

\* run.break_here()
CallMark ==
    /\ stage = "cursor"
    /\ cursor' = break_here(cursor)
    /\ probe' = Called("break_here", cursor, cursor', None, 0, FALSE, {},
                       FALSE, FALSE)
    /\ UNCHANGED <<text, kind, legacy, vec, phase, incb, table, first,
                   tried, client, indices, tables, found>>

CursorNext ==
    CallWalk \/ CallHead \/ CallSkip \/ CallValue \/ CallLook \/ CallMark

CursorSpec == CursorInit /\ [][CursorNext]_vars

\* the positions of the text of cursor c that a step can end on
Landings(c, noskip) ==
    {j \in 0..(Len(c.text) - 1) : noskip \/ c.values[j + 1] \notin c.skip}

\* the landings on the side dir (1 forward, -1 backward) of position p
Ahead(c, p, dir, noskip) ==
    {j \in Landings(c, noskip) : (j - p) * dir > 0}

\* the landings from position p up to j, p itself left out
Passed(c, p, j, dir, noskip) ==
    {k \in Ahead(c, p, dir, noskip) : (j - k) * dir >= 0}

\* the landings n steps away from the position of c: one or none
Stepped(c, n, dir, noskip) ==
    {j \in Ahead(c, c.position, dir, noskip) :
        Cardinality(Passed(c, c.position, j, dir, noskip)) = n}

\* the landings reached from the position of c through members of values only
Run_of(c, values, dir, noskip) ==
    {j \in Ahead(c, c.position, dir, noskip) :
        \A k \in Passed(c, c.position, j, dir, noskip) :
            c.values[k + 1] \in values}

\* C27: the position of a cursor over a non-empty text, and of every cursor
\* a lookaround returns, is inside the text.  A walk on a valid cursor
\* returns true exactly when the stepped position is inside the text and
\* then stands there; on overshoot it stands on the nearest end and is
\* invalid; a walk on an invalid cursor returns false and does not move.
C27_Position ==
    stage = "cursor" =>
        /\ cursor.position \in 0..(Len(text) - 1)
        /\ probe.run.position \in 0..(Len(text) - 1)
        /\ probe.op = "walk" /\ ~probe.before.condition =>
              /\ probe.returned = FALSE
              /\ cursor = probe.before
        /\ probe.op = "walk" /\ probe.before.condition /\ probe.offset # 0 =>
              /\ probe.returned =
                    (Stepped(probe.before,
                             IF probe.offset < 0 THEN -probe.offset
                             ELSE probe.offset,
                             IF probe.offset < 0 THEN -1 ELSE 1,
                             probe.noskip) # {})
              /\ cursor.condition = probe.returned
              /\ probe.returned =>
                    cursor.position \in
                        Stepped(probe.before,
                                IF probe.offset < 0 THEN -probe.offset
                                ELSE probe.offset,
                                IF probe.offset < 0 THEN -1 ELSE 1,
                                probe.noskip)
              /\ ~probe.returned =>
                    cursor.position =
                        IF probe.offset < 0 THEN 0 ELSE Len(text) - 1
        /\ probe.op = "walk" /\ probe.before.condition /\ probe.offset = 0 =>
              /\ probe.returned = TRUE
              /\ cursor = probe.before

\* a walk of two steps over a skipped position that overshoots the end
C27_Witness ==
    /\ stage = "cursor"
    /\ probe.op = "walk"
    /\ text = <<"A", "B", "C">>
    /\ probe.before.skip = {"B"}
    /\ probe.before.position = 0
    /\ probe.before.condition
    /\ probe.offset = 2
    /\ ~probe.noskip
    /\ probe.returned = FALSE
    /\ cursor.position = 2

\* C28: is_continuing (is_following, is_leading) and value (curr, prev,
\* next) leave the cursor they are called on as it was: position, validity,
\* skip set and decisions; head and skip change no decision.
C28_Frame ==
    stage = "cursor" =>
        /\ probe.op \in {"is_continuing", "value"} => cursor = probe.before
        /\ probe.op \in {"head", "skip"} =>
              cursor.breakables = probe.before.breakables

\* a greedy lookaround that matched and ended two positions away, on a
\* cursor that holds a decision
C28_Witness ==
    /\ stage = "cursor"
    /\ probe.op = "is_continuing"
    /\ probe.variable
    /\ probe.run.condition
    /\ probe.run.position = 2
    /\ cursor.position = 0
    /\ cursor.breakables[1] = Break

RECURSIVE PairWrites(_, _)
\* the positions on which the pairing loop, entered with cursor run, calls
\* do_not_break_here
PairWrites(run, RI) ==
    IF prev(run) = RI /\ curr(run) = RI
    THEN {run.position} \cup
         (IF ~walk(run, 1, FALSE).condition
             \/ ~walk(walk(run, 1, FALSE), 1, FALSE).condition
          THEN {}
          ELSE PairWrites(walk(walk(run, 1, FALSE), 1, FALSE), RI))
    ELSE {}

RECURSIVE WBPairWrites(_)
\* the same for the WB15 loop of the word engine, on its Runner
WBPairWrites(run) ==
    IF Runner_prev(run) = "Regional_Indicator"
       /\ Runner_curr(run) = "Regional_Indicator"
    THEN {run.i} \cup
         (IF ~Runner_valid(Runner_walk(run))
             \/ ~Runner_valid(Runner_walk(Runner_walk(run)))
          THEN {}
          ELSE WBPairWrites(Runner_walk(Runner_walk(run))))
    ELSE {}

\* the positions whose decision the body of the loop of phase ph reads or
\* writes, the body entered with cursor run
Touched(ph, run) ==
    IF ph = "wb15" THEN WBPairWrites(run)
    ELSE IF ph = "gb12" THEN PairWrites(run, "Regional_Indicator")
    ELSE IF ph = "lb30a" THEN PairWrites(run, "RI")
    ELSE IF ph \in WordPhases THEN {run.i}
    ELSE {run.position}

\* the longest text of a call that is followed to its end
MaxLiveLen == 3

\* the engines with a pairing loop of their own run on texts up to
\* MaxLiveLen, the other two on texts one shorter
LiveLen(K) ==
    IF K \in {"grapheme_cluster", "word"} THEN MaxLiveLen ELSE MaxLiveLen - 1

\* every engine on texts of regional indicators, Extend, ZWJ and a letter
LiveInit ==
    /\ kind \in Kinds
    /\ text \in UNION {[1..n -> RIAlphabet] : n \in 0..LiveLen(kind)}
    /\ AtCall

\* a call that has started keeps running: its next statement is executed
LiveSpec == LiveInit /\ [][EngineNext]_vars /\ WF_vars(EngineNext)

\* the decisions an iteration touches are decisions of the text, and the
\* vectors keep the length of the text
InsideText ==
    /\ phase \notin {"idle", "call", "done"} =>
          Len(cursor.breakables) = Len(text)
    /\ phase = "done" => Len(vec) = Len(text)
    /\ phase \notin {"idle", "call", "final", "done"}
       /\ PhaseValid(phase, PhaseWalk(phase, cursor)) =>
          Touched(phase, PhaseWalk(phase, cursor)) \subseteq 0..(Len(text) - 1)

\* C30: every call of an engine ends: it reaches its return after finitely
\* many loop iterations, and no iteration on the way touches a decision
\* outside positions 0..len(s)-1.
C30_Terminates == []InsideText /\ <>(phase = "done")

\* the grapheme engine has returned on a text that ends in the middle of
\* a pair of regional indicators
C30_Witness ==
    /\ phase = "done"
    /\ kind = "grapheme_cluster"
    /\ text = <<"U+1F1E6", "U+1F1E6", "U+1F1E6">>
    /\ vec = <<1, 0, 1>>

====
